---- MODULE Spec2Model ----
(***************************************************************************)
(* Codraw: room-scoped drawing history (server/drawing-state.js), room     *)
(* registry (server/rooms.js) and the socket.io gateway (server entry).    *)
(*                                                                         *)
(* SpecLog drives one DrawingState through its public methods, as a unit   *)
(* test would.  Spec drives the whole server through socket events.        *)
(***************************************************************************)
EXTENDS Integers, Sequences, FiniteSets, TLC

\* ------------------------------------------------------------------------
\* Bounds
\* ------------------------------------------------------------------------
\* largest version a log may reach (every mutating call is disabled there)
MaxVersion == 4
\* largest version a room's log may reach in the server specification
MaxRoomVersion == 3
\* number of operation ids nanoid(10) may put into circulation
MaxIds == 2
\* largest value Date.now() may return
MaxTime == 0
\* number of emits on their way to the server below which a page runs a
\* task that emits
MaxInFlight == 1
\* number of packets that may wait at a client
MaxInbox == 2
\* number of local ids that may be held at a time
MaxLocals == 3
\* number of packets waiting at the clients that are neither a snapshot, a
\* commit nor a join
MaxNoise == 1
\* number of points a stroke takes before its pointer is released
MaxPoints == 2
\* number of gestures and clicks of the users of the pages
MaxGestures == 2

\* ------------------------------------------------------------------------
\* JavaScript values.  t is the typeof tag ("array" for Array.isArray),
\* n the number / the array length / the serial of a generated id,
\* s the text of a string ("NaN" marks the number NaN).
\* ------------------------------------------------------------------------
Undef == [t |-> "undefined", n |-> 0, s |-> ""]
Num(k) == [t |-> "number", n |-> k, s |-> ""]
NaN == [t |-> "number", n |-> 0, s |-> "NaN"]
Str(x) == [t |-> "string", n |-> 0, s |-> x]
Arr(len) == [t |-> "array", n |-> len, s |-> ""]
Bool(b) == [t |-> "boolean", n |-> IF b THEN 1 ELSE 0, s |-> ""]
\* the k-th string produced by nanoid(10) (operation ids) and by nanoid(8)
\* (user ids): non-empty, distinct for distinct k, never equal to each other
NanoId(k) == [t |-> "string", n |-> k, s |-> "nanoid10"]
UserId(k) == [t |-> "string", n |-> k, s |-> "nanoid8"]

IsNumber(v) == v.t = "number"
IsString(v) == v.t = "string"
\* v > 0 and v <= 0 as JavaScript evaluates them (both false for NaN)
Gt0(v) == v.t = "number" /\ v.s # "NaN" /\ v.n > 0
Le0(v) == v.t = "number" /\ v.s # "NaN" /\ v.n <= 0
\* !v for the values a userId can take
Falsy(v) ==
    \/ v.t = "undefined"
    \/ v.t = "string" /\ v.s = ""
    \/ v.t = "number" /\ (v.s = "NaN" \/ v.n = 0)
    \/ v.t = "boolean" /\ v.n = 0

\* An operation object: nul is TRUE for null/undefined in place of an
\* object; a property the object does not have is Undef.
EmptyObject ==
    [nul |-> FALSE, type |-> Undef, points |-> Undef, size |-> Undef,
     color |-> Undef, composite |-> Undef, shape |-> Undef, x |-> Undef,
     y |-> Undef, width |-> Undef, height |-> Undef, targetId |-> Undef,
     id |-> Undef, userId |-> Undef, timestamp |-> Undef]
NullOp == [EmptyObject EXCEPT !.nul = TRUE]

\* ------------------------------------------------------------------------
\* validateOperation: "" when the operation is accepted, else the message
\* of the Error it throws.
\* ------------------------------------------------------------------------
AllowedShapes == {"circle", "square", "triangle"}

\* variant: a stroke needs only one point
validateStroke_onePoint(op) ==
    IF ~(op.points.t = "array") \/ op.points.n < 1
        THEN "Stroke must contain at least two points"
    ELSE IF ~IsNumber(op.size) \/ Le0(op.size)
        THEN "Invalid stroke size"
    ELSE IF ~IsString(op.color)
        THEN "Invalid color"
    ELSE IF op.composite # Str("source-over") /\ op.composite # Str("destination-out")
        THEN "Invalid composite mode"
    ELSE ""

validateStroke(op) ==
    IF ~(op.points.t = "array") \/ op.points.n < 2
        THEN "Stroke must contain at least two points"
    ELSE IF ~IsNumber(op.size) \/ Le0(op.size)
        THEN "Invalid stroke size"
    ELSE IF ~IsString(op.color)
        THEN "Invalid color"
    ELSE IF op.composite # Str("source-over") /\ op.composite # Str("destination-out")
        THEN "Invalid composite mode"
    ELSE ""

validateShape(op) ==
    LET hasLegacySize == IsNumber(op.size) /\ Gt0(op.size)
        hasWH == /\ IsNumber(op.width) /\ Gt0(op.width)
                 /\ IsNumber(op.height) /\ Gt0(op.height)
    IN  IF ~(IsString(op.shape) /\ op.shape.n = 0 /\ op.shape.s \in AllowedShapes)
            THEN "Invalid shape type"
        ELSE IF ~IsNumber(op.x) \/ ~IsNumber(op.y)
            THEN "Invalid shape position"
        ELSE IF ~hasLegacySize /\ ~hasWH
            THEN "Invalid shape dimensions"
        ELSE IF ~IsString(op.color)
            THEN "Invalid color"
        ELSE ""

validateShapeUpdate(op) ==
    LET hasPos == IsNumber(op.x) /\ IsNumber(op.y)
        hasWH == /\ IsNumber(op.width) /\ Gt0(op.width)
                 /\ IsNumber(op.height) /\ Gt0(op.height)
        hasColor == IsString(op.color)
    IN  IF ~IsString(op.targetId) \/ op.targetId.s = ""
            THEN "Missing targetId"
        ELSE IF ~hasPos /\ ~hasWH /\ ~hasColor
            THEN "Empty shape update"
        ELSE ""

validateOperation(op) ==
    IF op.nul THEN "Empty operation"
    ELSE IF op.type = Str("stroke") THEN validateStroke(op)
    ELSE IF op.type = Str("shape") THEN validateShape(op)
    ELSE IF op.type = Str("shape:update") THEN validateShapeUpdate(op)
    ELSE "Unsupported operation type"

\* ------------------------------------------------------------------------
\* DrawingState: each method maps the object's fields to the fields after
\* the call, together with what the call returns or throws.
\* ------------------------------------------------------------------------
NewDrawingState == [operations |-> <<>>, redoStack |-> <<>>, version |-> 0]

Front(q) == SubSeq(q, 1, Len(q) - 1)
Last(q) == q[Len(q)]

\* variant: the operation is pushed before it is validated
addOperation_pushFirst(st, op) ==
    LET msg == validateOperation(op)
    IN  IF msg # ""
        THEN [state |-> [st EXCEPT !.operations = Append(@, op)],
              threw |-> TRUE, message |-> msg, ret |-> Undef]
        ELSE [state |-> [operations |-> Append(st.operations, op),
                         redoStack |-> <<>>,
                         version |-> st.version + 1],
              threw |-> FALSE, message |-> "", ret |-> Undef]

\* variant: a new operation does not clear the redo stack
addOperation_keepRedo(st, op) ==
    LET msg == validateOperation(op)
    IN  IF msg # ""
        THEN [state |-> st, threw |-> TRUE, message |-> msg, ret |-> Undef]
        ELSE [state |-> [operations |-> Append(st.operations, op),
                         redoStack |-> st.redoStack,
                         version |-> st.version + 1],
              threw |-> FALSE, message |-> "", ret |-> Undef]

addOperation(st, op) ==
    LET msg == validateOperation(op)
    IN  IF msg # ""
        THEN [state |-> st, threw |-> TRUE, message |-> msg, ret |-> Undef]
        ELSE [state |-> [operations |-> Append(st.operations, op),
                         redoStack |-> <<>>,
                         version |-> st.version + 1],
              threw |-> FALSE, message |-> "", ret |-> Undef]

\* variant: undo without the empty-history guard
undo_noGuard(st) ==
    [state |-> [operations |-> IF Len(st.operations) = 0 THEN <<>>
                               ELSE Front(st.operations),
                redoStack |-> IF Len(st.operations) = 0 THEN st.redoStack
                              ELSE Append(st.redoStack, Last(st.operations)),
                version |-> st.version + 1],
     ret |-> Bool(TRUE)]

\* variant: undo takes the oldest operation, not the latest
undo_shift(st) ==
    IF Len(st.operations) = 0
    THEN [state |-> st, ret |-> Bool(FALSE)]
    ELSE [state |-> [operations |-> Tail(st.operations),
                     redoStack |-> Append(st.redoStack, Head(st.operations)),
                     version |-> st.version + 1],
          ret |-> Bool(TRUE)]

undo(st) ==
    IF Len(st.operations) = 0
    THEN [state |-> st, ret |-> Bool(FALSE)]
    ELSE [state |-> [operations |-> Front(st.operations),
                     redoStack |-> Append(st.redoStack, Last(st.operations)),
                     version |-> st.version + 1],
          ret |-> Bool(TRUE)]

\* variant: redo puts the operation back at the front of the history
redo_unshift(st) ==
    IF Len(st.redoStack) = 0
    THEN [state |-> st, ret |-> Bool(FALSE)]
    ELSE [state |-> [operations |-> <<Last(st.redoStack)>> \o st.operations,
                     redoStack |-> Front(st.redoStack),
                     version |-> st.version + 1],
          ret |-> Bool(TRUE)]

\* variant: redo leaves the operation on the redo stack
redo_noPop(st) ==
    IF Len(st.redoStack) = 0
    THEN [state |-> st, ret |-> Bool(FALSE)]
    ELSE [state |-> [operations |-> Append(st.operations, Last(st.redoStack)),
                     redoStack |-> st.redoStack,
                     version |-> st.version + 1],
          ret |-> Bool(TRUE)]

redo(st) ==
    IF Len(st.redoStack) = 0
    THEN [state |-> st, ret |-> Bool(FALSE)]
    ELSE [state |-> [operations |-> Append(st.operations, Last(st.redoStack)),
                     redoStack |-> Front(st.redoStack),
                     version |-> st.version + 1],
          ret |-> Bool(TRUE)]

\* the filter loop of removeByUser: entries with op.userId !== userId
RECURSIVE remainingOf(_, _)
remainingOf(ops, userId) ==
    IF ops = <<>> THEN <<>>
    ELSE IF Head(ops).userId # userId
         THEN <<Head(ops)>> \o remainingOf(Tail(ops), userId)
         ELSE remainingOf(Tail(ops), userId)

\* variant: the filter keeps the user's entries and drops the others
removeByUser_inverted(st, userId) ==
    IF Falsy(userId)
    THEN [state |-> st, ret |-> Bool(FALSE)]
    ELSE LET remaining ==
                 SelectSeq(st.operations, LAMBDA o : o.userId = userId)
             removed == Len(st.operations) - Len(remaining)
         IN  [state |-> [operations |-> remaining,
                         redoStack |-> <<>>,
                         version |-> IF removed > 0 THEN st.version + 1
                                     ELSE st.version],
              ret |-> Num(removed)]

removeByUser(st, userId) ==
    IF Falsy(userId)
    THEN [state |-> st, ret |-> Bool(FALSE)]
    ELSE LET remaining == remainingOf(st.operations, userId)
             removed == Len(st.operations) - Len(remaining)
         IN  [state |-> [operations |-> remaining,
                         redoStack |-> <<>>,
                         version |-> IF removed > 0 THEN st.version + 1
                                     ELSE st.version],
              ret |-> Num(removed)]

\* variant: clearAll bumps the version whether or not it removed anything
clearAll_alwaysBump(st) ==
    [state |-> [operations |-> <<>>, redoStack |-> <<>>,
                version |-> st.version + 1],
     ret |-> Num(Len(st.operations))]

\* variant: clearAll leaves the redo stack alone
clearAll_keepRedo(st) ==
    LET removed == Len(st.operations)
    IN  [state |-> [operations |-> <<>>,
                    redoStack |-> st.redoStack,
                    version |-> IF removed > 0 THEN st.version + 1
                                ELSE st.version],
         ret |-> Num(removed)]

clearAll(st) ==
    LET removed == Len(st.operations)
    IN  [state |-> [operations |-> <<>>,
                    redoStack |-> <<>>,
                    version |-> IF removed > 0 THEN st.version + 1
                                ELSE st.version],
         ret |-> Num(removed)]

\* variant: the snapshot is built without the operations
getSnapshot_noOperations(st) == [version |-> st.version, operations |-> <<>>]

\* getSnapshot hands out this.operations itself, not a copy
getSnapshot(st) == [version |-> st.version, operations |-> st.operations]

\* ------------------------------------------------------------------------
\* Inputs
\* ------------------------------------------------------------------------
\* {...op, id, userId, timestamp}: spreading null yields no property
\* variant: {userId, ...op, id, timestamp}, the candidate's userId wins
Stamp_clientWins(op, id, userId, timestamp) ==
    LET o == IF op.nul THEN EmptyObject ELSE op
    IN  [o EXCEPT !.id = id,
                  !.userId = IF o.userId = Undef THEN userId ELSE o.userId,
                  !.timestamp = timestamp]

\* variant: {...op, id, userId} with timestamp only where op has none
Stamp_keepTimestamp(op, id, userId, timestamp) ==
    LET o == IF op.nul THEN EmptyObject ELSE op
    IN  [o EXCEPT !.id = id, !.userId = userId,
                  !.timestamp = IF o.timestamp = Undef THEN timestamp
                                ELSE o.timestamp]

Stamp(op, id, userId, timestamp) ==
    [(IF op.nul THEN EmptyObject ELSE op)
        EXCEPT !.id = id, !.userId = userId, !.timestamp = timestamp]

StrokeOk ==
    [EmptyObject EXCEPT !.type = Str("stroke"), !.points = Arr(2),
        !.size = Num(4), !.color = Str("#000"),
        !.composite = Str("source-over")]
ShapeOk ==
    [EmptyObject EXCEPT !.type = Str("shape"), !.shape = Str("circle"),
        !.x = Num(0), !.y = Num(0), !.width = Num(10), !.height = Num(10),
        !.color = Str("#f00")]
UpdateOk ==
    [EmptyObject EXCEPT !.type = Str("shape:update"),
        !.targetId = NanoId(1), !.x = Num(5), !.y = Num(5)]
TextOp == [EmptyObject EXCEPT !.type = Str("text"), !.color = Str("#000")]
StrokeOnePoint == [StrokeOk EXCEPT !.points = Arr(1)]
ShapeHexagon == [ShapeOk EXCEPT !.shape = Str("hexagon")]
UpdateNoTarget == [EmptyObject EXCEPT !.type = Str("shape:update"),
                      !.targetId = Str("")]

InvalidTemplates ==
    {NullOp, TextOp, StrokeOnePoint, ShapeHexagon, UpdateNoTarget}

\* operations handed to a DrawingState directly
LogUserIds == {UserId(1), UserId(2), Str("")}
LogInputs ==
    {Stamp(StrokeOk, Undef, UserId(1), Num(0)),
     Stamp(ShapeOk, Undef, UserId(2), Num(0)),
     Stamp(UpdateOk, Undef, UserId(1), Num(0)),
     Stamp(StrokeOk, Undef, Str(""), Num(0))}
    \cup InvalidTemplates

\* ------------------------------------------------------------------------
\* State
\* ------------------------------------------------------------------------
VARIABLES
    log,    \* the DrawingState driven by SpecLog
    snap,   \* the object the latest getSnapshot() returned, if any
    last    \* the latest method call on log: name, arguments, outcome, the
            \* fields of log just before it, and the name and result of
            \* the call made before it
VARIABLES
    rooms,    \* RoomManager.rooms: roomId -> {state, users}
    adapter,  \* socket.io room membership: roomId -> sockets joined to it
    conns,    \* per socket: connection status and the roomId and userId
              \* its connection handler closed over
    uids,     \* number of user ids handed out by nanoid(8)
    oids,     \* number of operation ids nanoid(10) has put into
              \* circulation (an id drawn for a rejected operation is
              \* dropped unseen and does not count)
    sent,     \* what the latest handler emitted, in emission order
    ev,       \* the latest socket event handled
    origin    \* per operation id in circulation: the socket whose
              \* draw:commit produced it and the candidate it sent
VARIABLES
    canvas,   \* per client: the CanvasManager (operations, shapes, drafts)
    inbox,    \* per client: server packets on their way to it, in order
    outbox,   \* per client: its emits on their way to the server, in order
    gestures  \* the number of gestures and clicks there have been
logVars == <<log, snap, last>>
serverVars == <<rooms, adapter, conns, uids, oids, sent, ev, origin>>
clientVars == <<canvas, inbox, outbox, gestures>>
vars == <<log, snap, last, rooms, adapter, conns, uids, oids, sent, ev,
          origin, canvas, inbox, outbox, gestures>>

NoSnap == [taken |-> FALSE, version |-> 0, aliased |-> FALSE,
           operations |-> <<>>, original |-> <<>>]
NoCall == [call |-> "none", op |-> EmptyObject, userId |-> Undef,
           ret |-> Undef, threw |-> FALSE, message |-> "",
           pre |-> NewDrawingState,
           prevCall |-> "none", prevRet |-> Undef]

\* the operations array a held snapshot shows: the log's own array while
\* the log still uses that array, else the array as it was left
SnapOperations ==
    IF snap.aliased THEN log.operations ELSE snap.operations

\* a held snapshot after a call: push and pop change the shared array in
\* place; removeByUser and clearAll give the log a new array
SnapAfter(reassigned) ==
    IF snap.taken /\ snap.aliased /\ reassigned
    THEN [snap EXCEPT !.aliased = FALSE, !.operations = log.operations]
    ELSE snap

\* ------------------------------------------------------------------------
\* RoomManager and the socket.io server it runs under
\* ------------------------------------------------------------------------
RoomIds == {"lobby", "r1"}
Conns == {"s1", "s2", "s3"}
\* socket.io names each new socket afresh: the k-th connection is SocketIds[k]
SocketIds == <<"s1", "s2", "s3">>

\* a roomId with no record in RoomManager.rooms
NoRoom == [exists |-> FALSE, state |-> NewDrawingState, users |-> <<>>]

\* users is a Map socketId -> user, kept in insertion order
MapDelete(m, key) == SelectSeq(m, LAMBDA e : e.socketId # key)
MapSet(m, key, value) ==
    IF \E i \in 1..Len(m) : m[i].socketId = key
    THEN [i \in 1..Len(m) |->
            IF m[i].socketId = key THEN [m[i] EXCEPT !.user = value]
            ELSE m[i]]
    ELSE Append(m, [socketId |-> key, user |-> value])
MapValues(m) == [i \in 1..Len(m) |-> m[i].user]

\* variant: a fresh record is set at every call
ensureRoom_always(rs, roomId) ==
    [rs EXCEPT ![roomId] =
        [exists |-> TRUE, state |-> NewDrawingState, users |-> <<>>]]

\* variant: the record of a room nobody is registered in is replaced
ensureRoom_whenEmpty(rs, roomId) ==
    IF ~rs[roomId].exists \/ rs[roomId].users = <<>>
    THEN [rs EXCEPT ![roomId] =
            [exists |-> TRUE, state |-> NewDrawingState, users |-> <<>>]]
    ELSE rs

ensureRoom(rs, roomId) ==
    IF ~rs[roomId].exists
    THEN [rs EXCEPT ![roomId] =
            [exists |-> TRUE, state |-> NewDrawingState, users |-> <<>>]]
    ELSE rs

\* join and leave act on RoomManager.rooms and, through socket.join and
\* socket.leave, on the socket.io membership
\* variant: the socket joins the socket.io room but is not registered
join_noRegister(rs, ad, socketId, roomId, user) ==
    LET rs1 == ensureRoom(rs, roomId)
    IN  [rooms |-> rs1,
         adapter |-> [ad EXCEPT ![roomId] = @ \cup {socketId}]]

join(rs, ad, socketId, roomId, user) ==
    LET rs1 == ensureRoom(rs, roomId)
    IN  [rooms |-> [rs1 EXCEPT ![roomId].users = MapSet(@, socketId, user)],
         adapter |-> [ad EXCEPT ![roomId] = @ \cup {socketId}]]

\* variant: the socket leaves the socket.io room but stays registered
leave_keepUser(rs, ad, socketId, roomId) ==
    IF ~rs[roomId].exists
    THEN [rooms |-> rs, adapter |-> ad]
    ELSE [rooms |-> rs,
          adapter |-> [ad EXCEPT ![roomId] = @ \ {socketId}]]

\* variant: the record of a room is deleted with its last user
leave_dropEmptyRoom(rs, ad, socketId, roomId) ==
    IF ~rs[roomId].exists
    THEN [rooms |-> rs, adapter |-> ad]
    ELSE [rooms |-> IF MapDelete(rs[roomId].users, socketId) = <<>>
                    THEN [rs EXCEPT ![roomId] = NoRoom]
                    ELSE [rs EXCEPT ![roomId].users =
                                MapDelete(@, socketId)],
          adapter |-> [ad EXCEPT ![roomId] = @ \ {socketId}]]

\* variant: the room record is created when it is missing
leave_ensureRoom(rs, ad, socketId, roomId) ==
    LET rs1 == ensureRoom(rs, roomId)
    IN  [rooms |-> [rs1 EXCEPT ![roomId].users = MapDelete(@, socketId)],
         adapter |-> [ad EXCEPT ![roomId] = @ \ {socketId}]]

leave(rs, ad, socketId, roomId) ==
    IF ~rs[roomId].exists
    THEN [rooms |-> rs, adapter |-> ad]
    ELSE [rooms |-> [rs EXCEPT ![roomId].users = MapDelete(@, socketId)],
          adapter |-> [ad EXCEPT ![roomId] = @ \ {socketId}]]

\* getState and getUsers: the registry after the implicit ensureRoom, and
\* the value returned
getState(rs, roomId) ==
    LET rs1 == ensureRoom(rs, roomId)
    IN  [rooms |-> rs1, ret |-> rs1[roomId].state]

getUsers(rs, roomId) ==
    LET rs1 == ensureRoom(rs, roomId)
    IN  [rooms |-> rs1, ret |-> MapValues(rs1[roomId].users)]

\* (socket.handshake.query.roomId || "lobby").toString()
RoomOf(query) == IF Falsy(query) THEN "lobby" ELSE query.s
Queries == {Undef, Str("r1")}

\* the user record built at connection; displayName and color are
\* functions of userId and are left out
UserOf(userId) == [userId |-> userId]

\* one emit: the event, the sockets it is delivered to and its payload
NoMsg == [event |-> "none", to |-> {}, op |-> EmptyObject,
          version |-> 0, operations |-> <<>>, user |-> UserOf(Undef),
          users |-> <<>>, userId |-> Undef, message |-> "",
          ok |-> FALSE, removed |-> 0, id |-> Undef, x |-> Undef,
          y |-> Undef, emoji |-> Undef]
\* socket.emit, socket.to(roomId).emit and io.in(roomId).emit recipients
socketEmit(socketId) == {socketId}
\* variant: socket.broadcast, the other sockets of every room
socketTo_everyRoom(ad, socketId, roomId) ==
    (UNION {ad[r] : r \in RoomIds}) \ {socketId}
\* variant: socket.emit, the sender alone
socketTo_echo(ad, socketId, roomId) == {socketId}
\* variant: the sender is not excluded
socketTo_withSender(ad, socketId, roomId) == ad[roomId]
socketTo(ad, socketId, roomId) == ad[roomId] \ {socketId}
\* variant: io.emit, every socket of the server
ioIn_everyRoom(ad, roomId) == UNION {ad[r] : r \in RoomIds}
ioIn(ad, roomId) == ad[roomId]

\* variant: the payload carries the version read before the mutation
StateFull_stale(to, snapshot) ==
    [NoMsg EXCEPT !.event = "state:full", !.to = to,
        !.version = snapshot.version - 1,
        !.operations = snapshot.operations]

StateFull(to, snapshot) ==
    [NoMsg EXCEPT !.event = "state:full", !.to = to,
        !.version = snapshot.version, !.operations = snapshot.operations]

\* operations a client sends with draw:commit (NullOp: no argument); the
\* last one carries its own id, userId and timestamp properties
Spoofed == [StrokeOk EXCEPT !.id = Str("mine"), !.userId = UserId(1),
               !.timestamp = Num(7)]
CommitInputs == {ShapeOk, UpdateOk, Spoofed, NullOp, StrokeOnePoint}

\* the argument of an ephemeral event: no argument (nul), or an object with
\* some of the properties userId, id, x, y, emoji
NoPayload == [nul |-> TRUE, userId |-> Undef, id |-> Undef, x |-> Undef,
              y |-> Undef, emoji |-> Undef]
EmptyPayload == [NoPayload EXCEPT !.nul = FALSE]
Pos == [EmptyPayload EXCEPT !.x = Num(3)]
PosSpoofed == [Pos EXCEPT !.userId = UserId(1)]
EphemeralPayloads == {NoPayload, Pos, PosSpoofed}
EphemeralEvents == {"cursor:move", "draw:progress", "shape:progress"}
ReactionPayloads ==
    {[EmptyPayload EXCEPT !.emoji = Str("+1")],
     [EmptyPayload EXCEPT !.emoji = Str("")],
     [EmptyPayload EXCEPT !.emoji = Num(1)],
     EmptyPayload,
     NoPayload}

\* a CanvasManager after construction: operations, the shapes map, the
\* drafts of a gesture (draftCreate: the rectangle of the shape being
\* created; transformDraft: the shape being moved, where the pointer went
\* down and where the shape was; localPoints: the points of the stroke being
\* drawn; nul: the draft is null) and whether _lastShapeProgressAt holds a
\* time
NewCanvas ==
    [operations |-> <<>>, shapes |-> <<>>,
     draftCreate |-> [nul |-> TRUE, x |-> 0, y |-> 0, width |-> 0,
                      height |-> 0],
     transformDraft |-> [nul |-> TRUE, id |-> Undef, start |-> 0,
                         orig |-> [x |-> 0, y |-> 0]],
     localPoints |-> <<>>,
     lastShapeProgressAt |-> FALSE]

\* uncaught: the handler threw an exception that nothing caught
NoEvent == [name |-> "none", socketId |-> "", roomId |-> "",
            op |-> EmptyObject, ack |-> FALSE, payload |-> NoPayload,
            uncaught |-> FALSE]

Init ==
    /\ log = NewDrawingState
    /\ snap = NoSnap
    /\ last = NoCall
    /\ rooms = [r \in RoomIds |-> NoRoom]
    /\ adapter = [r \in RoomIds |-> {}]
    /\ conns = [c \in Conns |->
                    [status |-> "idle", roomId |-> "", userId |-> Undef]]
    /\ uids = 0
    /\ oids = 0
    /\ sent = <<>>
    /\ ev = NoEvent
    /\ origin = <<>>
    /\ canvas = [c \in Conns |-> NewCanvas]
    /\ gestures = 0
    /\ inbox = [c \in Conns |-> <<>>]
    /\ outbox = [c \in Conns |-> <<>>]

CallAddOperation(op) ==
    LET r == addOperation(log, op)
    IN  /\ r.state.version <= MaxVersion
        /\ log' = r.state
        /\ snap' = SnapAfter(FALSE)
        /\ last' = [NoCall EXCEPT !.call = "addOperation", !.op = op,
                        !.ret = r.ret, !.threw = r.threw,
                        !.message = r.message, !.pre = log,
                        !.prevCall = last.call, !.prevRet = last.ret]
        /\ UNCHANGED <<serverVars, clientVars>>

CallUndo ==
    LET r == undo(log)
    IN  /\ r.state.version <= MaxVersion
        /\ log' = r.state
        /\ snap' = SnapAfter(FALSE)
        /\ last' = [NoCall EXCEPT !.call = "undo", !.ret = r.ret,
                        !.pre = log,
                        !.prevCall = last.call, !.prevRet = last.ret]
        /\ UNCHANGED <<serverVars, clientVars>>

CallRedo ==
    LET r == redo(log)
    IN  /\ r.state.version <= MaxVersion
        /\ log' = r.state
        /\ snap' = SnapAfter(FALSE)
        /\ last' = [NoCall EXCEPT !.call = "redo", !.ret = r.ret,
                        !.pre = log,
                        !.prevCall = last.call, !.prevRet = last.ret]
        /\ UNCHANGED <<serverVars, clientVars>>

CallRemoveByUser(userId) ==
    LET r == removeByUser(log, userId)
    IN  /\ r.state.version <= MaxVersion
        /\ log' = r.state
        /\ snap' = SnapAfter(~Falsy(userId))
        /\ last' = [NoCall EXCEPT !.call = "removeByUser",
                        !.userId = userId, !.ret = r.ret, !.pre = log,
                        !.prevCall = last.call, !.prevRet = last.ret]
        /\ UNCHANGED <<serverVars, clientVars>>

CallClearAll ==
    LET r == clearAll(log)
    IN  /\ r.state.version <= MaxVersion
        /\ log' = r.state
        /\ snap' = SnapAfter(TRUE)
        /\ last' = [NoCall EXCEPT !.call = "clearAll", !.ret = r.ret,
                        !.pre = log,
                        !.prevCall = last.call, !.prevRet = last.ret]
        /\ UNCHANGED <<serverVars, clientVars>>

\* getSnapshot() whose result the caller reads and drops
CallGetSnapshot ==
    LET r == getSnapshot(log)
    IN  /\ log' = log
        /\ snap' = snap
        /\ last' = [NoCall EXCEPT !.call = "getSnapshot",
                        !.ret = Num(r.version), !.pre = log,
                        !.prevCall = last.call, !.prevRet = last.ret]
        /\ UNCHANGED <<serverVars, clientVars>>

\* getSnapshot() whose result the caller keeps across later calls
HoldSnapshot ==
    LET r == getSnapshot(log)
    IN  /\ log' = log
        /\ snap' = [taken |-> TRUE, version |-> r.version,
                    aliased |-> TRUE, operations |-> <<>>,
                    original |-> r.operations]
        /\ last' = [NoCall EXCEPT !.call = "getSnapshot",
                        !.ret = Num(r.version), !.pre = log,
                        !.prevCall = last.call, !.prevRet = last.ret]
        /\ UNCHANGED <<serverVars, clientVars>>

NextLog ==
    \/ \E op \in LogInputs : CallAddOperation(op)
    \/ CallUndo
    \/ CallRedo
    \/ \E userId \in LogUserIds : CallRemoveByUser(userId)
    \/ CallClearAll
    \/ CallGetSnapshot

SpecLog == Init /\ [][NextLog]_vars

\* the same calls, made by a caller that keeps a snapshot it obtained
NextSnapshot ==
    \/ NextLog
    \/ HoldSnapshot

SpecSnapshot == Init /\ [][NextSnapshot]_vars

\* ------------------------------------------------------------------------
\* The gateway: io.on("connection") and the handlers it registers
\* ------------------------------------------------------------------------
\* the server has no uncaughtException handler: an exception that leaves a
\* socket handler ends the Node process, and no event is handled after it
Running == ~ev.uncaught
Connected(c) == Running /\ conns[c].status = "connected"

\* socket.io takes a closing socket out of every room before it fires
\* "disconnect"
socketClose(ad, socketId) == [r \in RoomIds |-> ad[r] \ {socketId}]

OnConnection(c, query) ==
    LET roomId == RoomOf(query)
        rs0 == ensureRoom(rooms, roomId)
        userId == UserId(uids + 1)
        user == UserOf(userId)
        j == join(rs0, adapter, c, roomId, user)
        st == getState(j.rooms, roomId)
        snapshot == getSnapshot(st.ret)
        us == getUsers(st.rooms, roomId)
    IN  /\ Running
        /\ uids < Len(SocketIds)
        /\ c = SocketIds[uids + 1]
        /\ conns[c].status = "idle"
        /\ rooms' = us.rooms
        /\ adapter' = j.adapter
        /\ conns' = [conns EXCEPT ![c] = [status |-> "connected",
                                          roomId |-> roomId,
                                          userId |-> userId]]
        /\ uids' = uids + 1
        /\ sent' = << [NoMsg EXCEPT !.event = "init",
                            !.to = socketEmit(c), !.user = user,
                            !.version = snapshot.version,
                            !.operations = snapshot.operations,
                            !.users = us.ret],
                      [NoMsg EXCEPT !.event = "presence:join",
                            !.to = socketTo(j.adapter, c, roomId),
                            !.user = user] >>
        /\ ev' = [NoEvent EXCEPT !.name = "connection", !.socketId = c,
                        !.roomId = roomId]
        /\ UNCHANGED <<oids, origin, logVars>>

Connect(c, query) ==
    OnConnection(c, query) /\ UNCHANGED clientVars

OnDisconnect(c) ==
    LET roomId == conns[c].roomId
        l == leave(rooms, socketClose(adapter, c), c, roomId)
    IN  /\ Connected(c)
        /\ rooms' = l.rooms
        /\ adapter' = l.adapter
        /\ conns' = [conns EXCEPT ![c].status = "closed"]
        /\ sent' = << [NoMsg EXCEPT !.event = "presence:leave",
                            !.to = socketTo(l.adapter, c, roomId),
                            !.userId = conns[c].userId] >>
        /\ ev' = [NoEvent EXCEPT !.name = "disconnect", !.socketId = c,
                        !.roomId = roomId]
        /\ UNCHANGED <<uids, oids, origin, logVars>>

Disconnect(c) == OnDisconnect(c) /\ UNCHANGED clientVars

\* the record of who committed what, kept for the operations still held
\* by some room's log (operations or redo stack)
NoOrigin == [socketId |-> "", op |-> EmptyObject]
Held(rs, k) ==
    \E r \in DOMAIN rs :
        LET held == rs[r].state.operations \o rs[r].state.redoStack
        IN  \E i \in 1..Len(held) : held[i].id = NanoId(k)
Recorded(orig, rs) ==
    [k \in DOMAIN orig |-> IF Held(rs, k) THEN orig[k] ELSE NoOrigin]

\* Date.now() is the wall clock: any value, not necessarily later than the
\* one before
OnDrawCommit(c, op) ==
    \E t \in 0..MaxTime :
        LET roomId == conns[c].roomId
            userId == conns[c].userId
            opWithMeta == Stamp(op, NanoId(oids + 1), userId, Num(t))
            st == getState(rooms, roomId)
            r == addOperation(st.ret, opWithMeta)
        IN  /\ Connected(c)
            /\ r.threw \/ oids < MaxIds
            /\ r.state.version <= MaxRoomVersion
            /\ oids' = IF r.threw THEN oids ELSE oids + 1
            /\ rooms' = [st.rooms EXCEPT ![roomId].state = r.state]
            /\ sent' = IF r.threw
                       THEN << [NoMsg EXCEPT !.event = "error:message",
                                    !.to = socketEmit(c),
                                    !.message = r.message] >>
                       ELSE << [NoMsg EXCEPT !.event = "draw:commit",
                                    !.to = ioIn(adapter, roomId),
                                    !.op = opWithMeta] >>
            /\ ev' = [NoEvent EXCEPT !.name = "draw:commit",
                            !.socketId = c, !.roomId = roomId, !.op = op]
            /\ origin' = Recorded(IF r.threw THEN origin
                                    ELSE Append(origin,
                                            [socketId |-> c, op |-> op]),
                                    rooms')
            /\ UNCHANGED <<adapter, conns, uids, logVars>>

DrawCommit(c, op) ==
    OnDrawCommit(c, op) /\ UNCHANGED clientVars

OnUndo(c) ==
    LET roomId == conns[c].roomId
        st == getState(rooms, roomId)
        r == undo(st.ret)
    IN  /\ Connected(c)
        /\ r.state.version <= MaxRoomVersion
        /\ rooms' = [st.rooms EXCEPT ![roomId].state = r.state]
        /\ sent' = IF r.ret = Bool(TRUE)
                   THEN << StateFull(ioIn(adapter, roomId),
                                     getSnapshot(r.state)) >>
                   ELSE <<>>
        /\ ev' = [NoEvent EXCEPT !.name = "op:undo", !.socketId = c,
                        !.roomId = roomId]
        /\ UNCHANGED <<adapter, conns, uids, oids, origin, logVars>>

OpUndo(c) ==
    OnUndo(c) /\ UNCHANGED clientVars

OnRedo(c) ==
    LET roomId == conns[c].roomId
        st == getState(rooms, roomId)
        r == redo(st.ret)
    IN  /\ Connected(c)
        /\ r.state.version <= MaxRoomVersion
        /\ rooms' = [st.rooms EXCEPT ![roomId].state = r.state]
        /\ sent' = IF r.ret = Bool(TRUE)
                   THEN << StateFull(ioIn(adapter, roomId),
                                     getSnapshot(r.state)) >>
                   ELSE <<>>
        /\ ev' = [NoEvent EXCEPT !.name = "op:redo", !.socketId = c,
                        !.roomId = roomId]
        /\ UNCHANGED <<adapter, conns, uids, oids, origin, logVars>>

OpRedo(c) ==
    OnRedo(c) /\ UNCHANGED clientVars

\* variant: the ack carries the version read before the removal
Ack_staleVersion(c, hasAck, ok, removed, version) ==
    IF hasAck
    THEN << [NoMsg EXCEPT !.event = "ack", !.to = socketEmit(c),
                !.ok = ok, !.removed = removed,
                !.version = IF ok THEN version - 1 ELSE version] >>
    ELSE <<>>

\* the two ack shapes; ack is called only when the client passed a function
Ack(c, hasAck, ok, removed, version) ==
    IF hasAck
    THEN << [NoMsg EXCEPT !.event = "ack", !.to = socketEmit(c),
                !.ok = ok, !.removed = removed, !.version = version] >>
    ELSE <<>>

OnClearUser(c, hasAck) ==
    LET roomId == conns[c].roomId
        st == getState(rooms, roomId)
        r == removeByUser(st.ret, conns[c].userId)
    IN  /\ Connected(c)
        /\ r.state.version <= MaxRoomVersion
        /\ rooms' = [st.rooms EXCEPT ![roomId].state = r.state]
        /\ sent' = IF Gt0(r.ret)
                   THEN << StateFull(ioIn(adapter, roomId),
                                     getSnapshot(r.state)) >>
                        \o Ack(c, hasAck, TRUE, r.ret.n, r.state.version)
                   ELSE Ack(c, hasAck, FALSE, 0, r.state.version)
        /\ ev' = [NoEvent EXCEPT !.name = "op:clearUser", !.socketId = c,
                        !.roomId = roomId, !.ack = hasAck]
        /\ origin' = Recorded(origin, rooms')
        /\ UNCHANGED <<adapter, conns, uids, oids, logVars>>

OpClearUser(c, hasAck) ==
    OnClearUser(c, hasAck) /\ UNCHANGED clientVars

OnClearAll(c, hasAck) ==
    LET roomId == conns[c].roomId
        st == getState(rooms, roomId)
        r == clearAll(st.ret)
    IN  /\ Connected(c)
        /\ r.state.version <= MaxRoomVersion
        /\ rooms' = [st.rooms EXCEPT ![roomId].state = r.state]
        /\ sent' = IF Gt0(r.ret)
                   THEN << StateFull(ioIn(adapter, roomId),
                                     getSnapshot(r.state)) >>
                        \o Ack(c, hasAck, TRUE, r.ret.n, r.state.version)
                   ELSE Ack(c, hasAck, FALSE, 0, r.state.version)
        /\ ev' = [NoEvent EXCEPT !.name = "op:clearAll", !.socketId = c,
                        !.roomId = roomId, !.ack = hasAck]
        /\ origin' = Recorded(origin, rooms')
        /\ UNCHANGED <<adapter, conns, uids, oids, logVars>>

OpClearAll(c, hasAck) ==
    OnClearAll(c, hasAck) /\ UNCHANGED clientVars

\* { userId, ...payload }: a userId property of the payload comes after
\* the server's and replaces it; spreading undefined adds nothing.  A
\* payload off the wire has no property whose value is undefined.
Forwarded(name, to, userId, payload) ==
    [NoMsg EXCEPT !.event = name, !.to = to,
        !.userId = IF ~payload.nul /\ payload.userId # Undef
                   THEN payload.userId ELSE userId,
        !.id = payload.id, !.x = payload.x, !.y = payload.y]

\* variant: the relayed event also empties the room's redo stack
Ephemeral_clearsRedo(c, name, payload) ==
    LET roomId == conns[c].roomId
        userId == conns[c].userId
    IN  /\ Connected(c)
        /\ rooms' = [rooms EXCEPT ![roomId].state.redoStack = <<>>]
        /\ origin' = Recorded(origin, rooms')
        /\ sent' = << Forwarded(name, socketTo(adapter, c, roomId),
                            userId, payload) >>
        /\ ev' = [NoEvent EXCEPT !.name = name, !.socketId = c,
                        !.roomId = roomId, !.payload = payload]
        /\ UNCHANGED <<adapter, conns, uids, oids, logVars, clientVars>>

\* cursor:move, draw:progress and shape:progress
OnEphemeral(c, name, payload) ==
    LET roomId == conns[c].roomId
        userId == conns[c].userId
    IN  /\ Connected(c)
        /\ sent' = << Forwarded(name, socketTo(adapter, c, roomId),
                            userId, payload) >>
        /\ ev' = [NoEvent EXCEPT !.name = name, !.socketId = c,
                        !.roomId = roomId, !.payload = payload]
        /\ UNCHANGED <<rooms, adapter, conns, uids, oids, origin, logVars>>

Ephemeral(c, name, payload) ==
    OnEphemeral(c, name, payload) /\ UNCHANGED clientVars

\* typeof emoji !== "string" || !emoji
emojiDropped(emoji) == ~IsString(emoji) \/ Falsy(emoji)

\* reaction; the parameter ({ emoji }) destructures the argument, which
\* throws a TypeError when the event came with no argument or with null.
\* The id and ts of the emitted reaction are fresh values and are left out
OnReaction(c, payload) ==
    LET roomId == conns[c].roomId
        userId == conns[c].userId
        emoji == payload.emoji
    IN  /\ Connected(c)
        /\ sent' = IF payload.nul \/ emojiDropped(emoji)
                   THEN <<>>
                   ELSE << [NoMsg EXCEPT !.event = "reaction",
                                !.to = ioIn(adapter, roomId),
                                !.userId = userId, !.emoji = emoji] >>
        /\ ev' = [NoEvent EXCEPT !.name = "reaction", !.socketId = c,
                        !.roomId = roomId, !.payload = payload,
                        !.uncaught = payload.nul]
        /\ UNCHANGED <<rooms, adapter, conns, uids, oids, origin, logVars>>

Reaction(c, payload) ==
    OnReaction(c, payload) /\ UNCHANGED clientVars

Next ==
    \/ \E c \in Conns, query \in Queries : Connect(c, query)
    \/ \E c \in Conns : Disconnect(c)
    \/ \E c \in Conns, op \in CommitInputs : DrawCommit(c, op)
    \/ \E c \in Conns : OpUndo(c)
    \/ \E c \in Conns : OpRedo(c)
    \/ \E c \in Conns, hasAck \in BOOLEAN : OpClearUser(c, hasAck)
    \/ \E c \in Conns, hasAck \in BOOLEAN : OpClearAll(c, hasAck)

Spec == Init /\ [][Next]_vars

\* every handler of the connection, the ephemeral events among them, with
\* clients that commit shapes and ask for acknowledgements
GatewayCommits == {ShapeOk}
NextGateway ==
    \/ \E c \in Conns, query \in Queries : Connect(c, query)
    \/ \E c \in Conns : Disconnect(c)
    \/ \E c \in Conns, op \in GatewayCommits : DrawCommit(c, op)
    \/ \E c \in Conns : OpUndo(c)
    \/ \E c \in Conns : OpRedo(c)
    \/ \E c \in Conns : OpClearUser(c, TRUE)
    \/ \E c \in Conns : OpClearAll(c, TRUE)
    \/ \E c \in Conns, name \in EphemeralEvents,
            payload \in EphemeralPayloads : Ephemeral(c, name, payload)
    \/ \E c \in Conns, payload \in ReactionPayloads : Reaction(c, payload)

SpecGateway == Init /\ [][NextGateway]_vars

\* ------------------------------------------------------------------------
\* The clients: the CanvasManager of each page, fed by its RealtimeClient
\* ------------------------------------------------------------------------
ClientConns == {"s1", "s2"}
\* `local-${Math.random().toString(36).slice(2)}`: k tells two ids apart
LocalId(k) == [t |-> "string", n |-> k, s |-> "local"]
\* id.startsWith('local-')
IsLocalId(id) == id.t = "string" /\ id.s = "local"
\* Number.isFinite
IsFinite(v) == v.t = "number" /\ v.s # "NaN"

\* normalizeIncomingShape for an operation that is an object; the sizes of
\* the legacy branch are even, so that size / 2 is an integer
normalizeIncomingShape(op) ==
    LET color == IF Falsy(op.color) THEN Str("#1f2937") ELSE op.color
    IN  IF IsFinite(op.width) /\ IsFinite(op.height)
        THEN [id |-> op.id, shape |-> op.shape, x |-> op.x, y |-> op.y,
              width |-> op.width, height |-> op.height, color |-> color]
        ELSE LET size == IF IsFinite(op.size) /\ op.size.n # 0
                         THEN (IF op.size.n >= 1 THEN op.size.n ELSE 1)
                         ELSE 16
                 cx == IF op.x.t = "undefined" THEN 0 ELSE op.x.n
                 cy == IF op.y.t = "undefined" THEN 0 ELSE op.y.n
             IN  [id |-> op.id, shape |-> op.shape,
                  x |-> Num(cx - size \div 2), y |-> Num(cy - size \div 2),
                  width |-> Num(size), height |-> Num(size),
                  color |-> color]

\* CanvasManager.shapes, a Map in insertion order: get, set, delete
ShapeAt(shapes, id) ==
    IF \E i \in 1..Len(shapes) : shapes[i].id = id
    THEN CHOOSE i \in 1..Len(shapes) : shapes[i].id = id
    ELSE 0
ShapeSet(shapes, id, s) ==
    IF ShapeAt(shapes, id) = 0 THEN Append(shapes, s)
    ELSE [shapes EXCEPT ![ShapeAt(shapes, id)] = s]
ShapeDelete(shapes, id) == SelectSeq(shapes, LAMBDA s : s.id # id)

\* hitTestShape: the position in shapes of the last shape whose box holds
\* the point, 0 when there is none
hitTestShape(shapes, x, y) ==
    LET hits == {i \in 1..Len(shapes) :
                    /\ IsFinite(shapes[i].x) /\ IsFinite(shapes[i].y)
                    /\ x >= shapes[i].x.n
                    /\ x <= shapes[i].x.n + shapes[i].width.n
                    /\ y >= shapes[i].y.n
                    /\ y <= shapes[i].y.n + shapes[i].height.n}
    IN  IF hits = {} THEN 0
        ELSE CHOOSE i \in hits : \A j \in hits : j <= i

\* findMatchingLocalShapeId: the position in shapes of the first local
\* placeholder of the same kind whose centre is less than 4 away and whose
\* width and height differ by less than 6 in all, 0 when there is none
findMatchingLocalShapeId(shapes, shape) ==
    LET Abs(a) == IF a >= 0 THEN a ELSE -a
        close(s) ==
            /\ IsLocalId(s.id)
            /\ s.shape = shape.shape
            /\ IsFinite(s.x) /\ IsFinite(s.y) /\ IsFinite(shape.x)
            /\ IsFinite(shape.y)
            /\ LET dx2 == 2 * (s.x.n - shape.x.n)
                            + (s.width.n - shape.width.n)
                   dy2 == 2 * (s.y.n - shape.y.n)
                            + (s.height.n - shape.height.n)
               IN  /\ dx2 * dx2 + dy2 * dy2 < 64
                   /\ Abs(s.width.n - shape.width.n)
                        + Abs(s.height.n - shape.height.n) < 6
        hits == {i \in 1..Len(shapes) : close(shapes[i])}
    IN  IF hits = {} THEN 0
        ELSE CHOOSE i \in hits : \A j \in hits : i <= j

\* the fields of a shape that a shape:update or a progress fragment sets
Transformed(s, p, withColor) ==
    [s EXCEPT !.x = IF IsFinite(p.x) THEN p.x ELSE @,
              !.y = IF IsFinite(p.y) THEN p.y ELSE @,
              !.width = IF IsFinite(p.width) /\ Gt0(p.width)
                        THEN p.width ELSE @,
              !.height = IF IsFinite(p.height) /\ Gt0(p.height)
                         THEN p.height ELSE @,
              !.color = IF withColor /\ IsString(p.color)
                        THEN p.color ELSE @]

\* CanvasManager.applyCommit on operations and shapes; tempId is the id
\* drawn for a shape that has none
applyCommit(cm, op, tempId) ==
    IF op.type = Str("stroke")
    THEN [cm EXCEPT !.operations = Append(@, op)]
    ELSE IF op.type = Str("shape")
    THEN LET norm == normalizeIncomingShape(op)
         IN  IF ~Falsy(op.id)
             THEN LET at == findMatchingLocalShapeId(cm.shapes, norm)
                      kept == IF at = 0 THEN cm.shapes
                              ELSE ShapeDelete(cm.shapes, cm.shapes[at].id)
                  IN  [cm EXCEPT !.operations = Append(@, op),
                                 !.shapes = ShapeSet(kept, op.id, norm)]
             ELSE [cm EXCEPT
                     !.operations = Append(@, [op EXCEPT !.id = tempId]),
                     !.shapes = ShapeSet(@, tempId,
                                         [norm EXCEPT !.id = tempId])]
    ELSE IF op.type = Str("shape:update")
    THEN LET at == ShapeAt(cm.shapes, op.targetId)
         IN  [cm EXCEPT !.operations = Append(@, op),
                        !.shapes = IF at = 0 THEN @
                                   ELSE [@ EXCEPT
                                           ![at] = Transformed(@, op, TRUE)]]
    ELSE cm

\* the shapes map renderSnapshot rebuilds from the operations
RECURSIVE rebuiltShapes(_, _)
rebuiltShapes(shapes, ops) ==
    IF ops = <<>> THEN shapes
    ELSE LET op == Head(ops)
             at == ShapeAt(shapes, op.targetId)
         IN  rebuiltShapes(
                IF op.type = Str("shape")
                THEN IF ~Falsy(op.id)
                     THEN ShapeSet(shapes, op.id, normalizeIncomingShape(op))
                     ELSE shapes
                ELSE IF op.type = Str("shape:update")
                        /\ ~Falsy(op.targetId) /\ at # 0
                     THEN [shapes EXCEPT ![at] = Transformed(@, op, TRUE)]
                     ELSE shapes,
                Tail(ops))

\* variant: the snapshot is added to the list instead of replacing it
renderSnapshot_append(cm, snapshot) ==
    [cm EXCEPT
        !.operations = cm.operations \o snapshot.operations,
        !.shapes = rebuiltShapes(<<>>, cm.operations \o snapshot.operations)]

\* CanvasManager.renderSnapshot: snapshot.operations.slice(), shapes rebuilt
renderSnapshot(cm, snapshot) ==
    [cm EXCEPT !.operations = snapshot.operations,
               !.shapes = rebuiltShapes(<<>>, snapshot.operations)]

\* CanvasManager.applyShapeProgress; a fragment carries no width or height
applyShapeProgress(cm, payload) ==
    LET at == ShapeAt(cm.shapes, payload.id)
    IN  IF Falsy(payload.id) \/ at = 0 THEN cm
        ELSE [cm EXCEPT !.shapes[at] =
                [@ EXCEPT !.x = IF IsFinite(payload.x) THEN payload.x ELSE @,
                          !.y = IF IsFinite(payload.y) THEN payload.y ELSE @]]

\* the handlers RealtimeClient calls for a packet: onInit and onState
\* render the snapshot, onCommit applies the operation, onShapeProgress
\* applies a fragment of another user; onProgress keeps the fragment of a
\* stroke in remoteProgress, which is no part of the state, and the other
\* events leave the CanvasManager alone.  self is selfUser.userId
Handled(cm, m, self) ==
    IF m.event \in {"init", "state:full"} THEN renderSnapshot(cm, m)
    ELSE IF m.event = "draw:commit" THEN applyCommit(cm, m.op, Undef)
    ELSE IF m.event = "shape:progress" /\ m.userId # self
         THEN applyShapeProgress(cm, m)
    ELSE cm

\* variant: a packet overtakes the packets written before it
RECURSIVE Deliver_overtaking(_, _)
Deliver_overtaking(inb, msgs) ==
    IF msgs = <<>> THEN inb
    ELSE Deliver_overtaking([c \in Conns |-> IF c \in Head(msgs).to
                                             THEN <<Head(msgs)>> \o inb[c]
                                             ELSE inb[c]],
                            Tail(msgs))

\* socket.io writes each emit, in emission order, to every recipient
RECURSIVE Deliver(_, _)
Deliver(inb, msgs) ==
    IF msgs = <<>> THEN inb
    ELSE Deliver([c \in Conns |-> IF c \in Head(msgs).to
                                  THEN Append(inb[c], Head(msgs))
                                  ELSE inb[c]],
                 Tail(msgs))

\* an emit of a client: the event, and its argument (an operation for
\* draw:commit, a payload for the ephemeral events, a callback for the two
\* clears)
NoRequest == [name |-> "none", op |-> EmptyObject, payload |-> NoPayload]

\* the serials of the local ids that are held anywhere
LocalsOf(ops) ==
    {ops[i].id.n : i \in {j \in 1..Len(ops) : IsLocalId(ops[j].id)}}
        \cup {ops[i].targetId.n :
                i \in {j \in 1..Len(ops) : IsLocalId(ops[j].targetId)}}
UsedLocals ==
    UNION {LocalsOf(canvas[c].operations) : c \in Conns}
    \cup UNION {{canvas[c].shapes[i].id.n :
                    i \in {j \in 1..Len(canvas[c].shapes) :
                              IsLocalId(canvas[c].shapes[j].id)}} :
                c \in Conns}
    \cup {canvas[c].transformDraft.id.n :
            c \in {d \in Conns : IsLocalId(canvas[d].transformDraft.id)}}
    \cup UNION {LocalsOf([i \in 1..Len(outbox[c]) |-> outbox[c][i].op])
                    : c \in Conns}
    \cup UNION {{outbox[c][i].payload.id.n :
                    i \in {j \in 1..Len(outbox[c]) :
                              IsLocalId(outbox[c][j].payload.id)}} :
                c \in Conns}
    \cup UNION {LocalsOf([i \in 1..Len(inbox[c]) |-> inbox[c][i].op])
                    : c \in Conns}
    \cup UNION {UNION {LocalsOf(inbox[c][i].operations) :
                          i \in 1..Len(inbox[c])} : c \in Conns}
    \cup UNION {{inbox[c][i].id.n :
                    i \in {j \in 1..Len(inbox[c]) :
                              IsLocalId(inbox[c][j].id)}} : c \in Conns}
    \cup UNION {LocalsOf(rooms[r].state.operations) : r \in RoomIds}
    \cup UNION {LocalsOf(rooms[r].state.redoStack) : r \in RoomIds}
\* Math.random gives an id that is held nowhere
FreshLocals == (1..MaxLocals) \ UsedLocals
FreshLocalId ==
    LocalId(CHOOSE k \in FreshLocals : \A j \in FreshLocals : k <= j)

\* a step of a page runs no handler of the server: sent and ev, which tell
\* of the handler that ran in a step, tell of none
NoHandler ==
    /\ sent' = <<>>
    /\ ev' = [NoEvent EXCEPT !.uncaught = ev.uncaught]
    /\ UNCHANGED <<rooms, adapter, conns, uids, oids, origin>>

\* the page of the connection is open: its socket has not been closed
Open(c) == c \in ClientConns /\ conns[c].status # "closed"
\* CanvasManager.active, for the one pointer of a page: set by
\* onPointerDown, cleared by onPointerUp together with the draft
Active(cm) ==
    ~cm.draftCreate.nul \/ ~cm.transformDraft.nul \/ cm.localPoints # <<>>
\* the emits of a page, appended to those on their way
Emitted(c, reqs) == outbox' = [outbox EXCEPT ![c] = @ \o reqs]
\* a user starts a gesture, which runs from a pointerdown to the next
\* pointerup, clicks a button or moves a pointer that is up; MaxGestures
\* of them happen
UserTask == gestures < MaxGestures /\ gestures' = gestures + 1

\* the tools of the toolbar; a pointer is at (2, 2) or at (12, 12), p
\* standing for the point (p, p), with the view neither panned nor zoomed
Tools == {"brush", "shape", "pan"}
PointerPoints == {2, 12}
\* the value of the size slider and of the color picker
ToolSize == 10
ToolColor == Str("#f00")
\* onPointerDown, with no gesture of the pointer under way: the hand tool
\* on a shape starts to move it (on the empty canvas it pans the view, which
\* is no part of the state), the shape tool starts a shape, the brush a
\* stroke of one point
onPointerDown(cm, tool, p) ==
    IF tool = "pan"
    THEN LET hit == hitTestShape(cm.shapes, p, p)
         IN  IF hit = 0 THEN cm
             ELSE [cm EXCEPT !.transformDraft =
                        [nul |-> FALSE, id |-> cm.shapes[hit].id,
                         start |-> p,
                         orig |-> [x |-> cm.shapes[hit].x.n,
                                   y |-> cm.shapes[hit].y.n]]]
    ELSE IF tool = "shape"
    THEN [cm EXCEPT !.draftCreate =
                [nul |-> FALSE, x |-> p, y |-> p, width |-> 0, height |-> 0]]
    ELSE [cm EXCEPT !.localPoints = <<p>>]
PointerDown(c, tool, p) ==
    /\ Open(c)
    /\ ~Active(canvas[c])
    /\ onPointerDown(canvas[c], tool, p) # canvas[c]
    /\ canvas' = [canvas EXCEPT ![c] = onPointerDown(@, tool, p)]
    /\ UserTask
    /\ NoHandler
    /\ UNCHANGED <<inbox, outbox, logVars>>

\* onPointerMove over the canvas with the pointer at p: cm is the
\* CanvasManager after it and emits what it sent.  A shape under way takes
\* the width and height dragged; a dragged shape that is still there goes
\* to orig + (p - start), and its fragment is sent unless one was sent in
\* the last 16 ms (throttled); a stroke takes the point unless it is the
\* last one, and its fragment, whose points, color, size and composite are
\* left out, is sent unless throttled
onPointerMove(cm, p, throttled) ==
    IF ~cm.draftCreate.nul
    THEN [cm |-> [cm EXCEPT !.draftCreate.width = p - cm.draftCreate.x,
                            !.draftCreate.height = p - cm.draftCreate.y],
          emits |-> <<>>]
    ELSE IF ~cm.transformDraft.nul
    THEN LET draft == cm.transformDraft
             at == ShapeAt(cm.shapes, draft.id)
             moved == [cm EXCEPT !.shapes[at] =
                        [@ EXCEPT !.x = Num(draft.orig.x + p - draft.start),
                                  !.y = Num(draft.orig.y + p - draft.start)]]
         IN  IF at = 0 THEN [cm |-> cm, emits |-> <<>>]
             ELSE IF cm.lastShapeProgressAt /\ throttled
             THEN [cm |-> moved, emits |-> <<>>]
             ELSE [cm |-> [moved EXCEPT !.lastShapeProgressAt = TRUE],
                   emits |-> <<[name |-> "shape:progress",
                                op |-> EmptyObject,
                                payload |-> [EmptyPayload EXCEPT
                                    !.id = draft.id,
                                    !.x = moved.shapes[at].x,
                                    !.y = moved.shapes[at].y]]>>]
    ELSE IF cm.localPoints # <<>>
    THEN [cm |-> [cm EXCEPT !.localPoints =
                        IF Last(@) = p THEN @ ELSE Append(@, p)],
          emits |-> IF throttled THEN <<>>
                    ELSE <<[name |-> "draw:progress", op |-> EmptyObject,
                            payload |-> EmptyPayload]>>]
    ELSE [cm |-> cm, emits |-> <<>>]

\* the pointermove listener of the document sends the position of the
\* cursor; the color sent with it is left out
CursorMove(p) ==
    [name |-> "cursor:move", op |-> EmptyObject,
     payload |-> [EmptyPayload EXCEPT !.x = Num(p), !.y = Num(p)]]
\* a pointermove to p: over the canvas (a stroke captures the pointer) the
\* listener of the canvas runs first, then the listener of the document,
\* in one task.  A stroke takes at most MaxPoints points; a move during a
\* gesture is part of the gesture
PointerMove(c, over, p, throttled) ==
    LET r == IF over \/ canvas[c].localPoints # <<>>
             THEN onPointerMove(canvas[c], p, throttled)
             ELSE [cm |-> canvas[c], emits |-> <<>>]
    IN  /\ Open(c)
        /\ Len(outbox[c]) < MaxInFlight
        /\ Len(r.cm.localPoints) <= MaxPoints
        /\ canvas' = [canvas EXCEPT ![c] = r.cm]
        /\ Emitted(c, r.emits \o <<CursorMove(p)>>)
        /\ IF Active(canvas[c]) THEN UNCHANGED gestures ELSE UserTask
        /\ NoHandler
        /\ UNCHANGED <<inbox, logVars>>

\* normalizeRect: the box of a draft, at least 1 wide and high
normalizeRect(draft) ==
    LET abs(a) == IF a >= 0 THEN a ELSE -a
        min(a, b) == IF a <= b THEN a ELSE b
        max(a, b) == IF a >= b THEN a ELSE b
    IN  [x |-> min(draft.x, draft.x + draft.width),
         y |-> min(draft.y, draft.y + draft.height),
         width |-> max(1, abs(draft.width)),
         height |-> max(1, abs(draft.height))]
\* the shape onPointerUp makes of draftCreate: after a click, a box of the
\* size of the slider (even, so that its half is an integer) around the
\* point; after a drag, the box dragged
ShapeOf(draft) ==
    LET d == normalizeRect(draft)
        s == IF ToolSize >= 1 THEN ToolSize ELSE 1
        box == IF d.width < 2 /\ d.height < 2
               THEN [x |-> d.x - s \div 2, y |-> d.y - s \div 2,
                     width |-> s, height |-> s]
               ELSE d
    IN  [EmptyObject EXCEPT !.type = Str("shape"), !.shape = Str("circle"),
            !.x = Num(box.x), !.y = Num(box.y), !.width = Num(box.width),
            !.height = Num(box.height), !.color = ToolColor]
\* the shape:update onPointerUp commits for a shape of CanvasManager.shapes
ShapeUpdateOf(s) ==
    [EmptyObject EXCEPT !.type = Str("shape:update"), !.targetId = s.id,
        !.x = s.x, !.y = s.y, !.width = s.width, !.height = s.height,
        !.color = s.color]
\* onPointerUp: cm is the CanvasManager after it and commits what it
\* handed to onCommit.  A created shape is applied locally under tempId
\* and committed; a dragged shape that is still there is committed as a
\* shape:update where it is now; a stroke is committed with its points,
\* which simplifyPoints keeps, each being far from the one before
onPointerUp(cm, tempId) ==
    IF ~cm.draftCreate.nul
    THEN [cm |-> [applyCommit(cm, ShapeOf(cm.draftCreate), tempId)
                    EXCEPT !.draftCreate = NewCanvas.draftCreate],
          commits |-> <<ShapeOf(cm.draftCreate)>>]
    ELSE IF ~cm.transformDraft.nul
    THEN LET at == ShapeAt(cm.shapes, cm.transformDraft.id)
         IN  [cm |-> [cm EXCEPT !.transformDraft = NewCanvas.transformDraft],
              commits |-> IF at = 0 THEN <<>>
                          ELSE <<ShapeUpdateOf(cm.shapes[at])>>]
    ELSE [cm |-> [cm EXCEPT !.localPoints = <<>>],
          commits |-> <<[EmptyObject EXCEPT !.type = Str("stroke"),
                            !.points = Arr(Len(cm.localPoints)),
                            !.color = ToolColor, !.size = Num(ToolSize),
                            !.composite = Str("source-over")]>>]
\* the pointerup listener of the window, with a gesture under way (without
\* one it returns at once)
PointerUp(c) ==
    LET tempId == IF ~canvas[c].draftCreate.nul THEN FreshLocalId ELSE Undef
        r == onPointerUp(canvas[c], tempId)
    IN  /\ Open(c)
        /\ Active(canvas[c])
        /\ Len(outbox[c]) < MaxInFlight
        /\ ~canvas[c].draftCreate.nul => FreshLocals # {}
        /\ canvas' = [canvas EXCEPT ![c] = r.cm]
        /\ Emitted(c, [i \in 1..Len(r.commits) |->
                          [NoRequest EXCEPT !.name = "draw:commit",
                                            !.op = r.commits[i]]])
        /\ NoHandler
        /\ UNCHANGED <<inbox, gestures, logVars>>

\* sendUndo and sendRedo
ClickUndoRedo(c, name) ==
    /\ Open(c)
    /\ Len(outbox[c]) < MaxInFlight
    /\ Emitted(c, <<[NoRequest EXCEPT !.name = name]>>)
    /\ UserTask
    /\ NoHandler
    /\ UNCHANGED <<canvas, inbox, logVars>>

\* sendClearAll and sendClearMine: the emit carries a callback
ClickClear(c, name) ==
    /\ Open(c)
    /\ Len(outbox[c]) < MaxInFlight
    /\ Emitted(c, <<[NoRequest EXCEPT !.name = name]>>)
    /\ UserTask
    /\ NoHandler
    /\ UNCHANGED <<canvas, inbox, logVars>>

\* sendReaction with the text of a button of the palette
ClientEmojis == {Str("+1")}
ClickReaction(c, emoji) ==
    /\ Open(c)
    /\ Len(outbox[c]) < MaxInFlight
    /\ Emitted(c, <<[NoRequest EXCEPT !.name = "reaction",
                        !.payload = [EmptyPayload EXCEPT
                                        !.emoji = emoji]]>>)
    /\ UserTask
    /\ NoHandler
    /\ UNCHANGED <<canvas, inbox, logVars>>

\* the client's socket hands the page the next packet.  selfUser is the
\* user of init, the first packet of a connection
Receive(c) ==
    /\ inbox[c] # <<>>
    /\ canvas' = [canvas EXCEPT ![c] =
                    Handled(@, Head(inbox[c]), conns[c].userId)]
    /\ inbox' = [inbox EXCEPT ![c] = Tail(@)]
    /\ NoHandler
    /\ UNCHANGED <<outbox, gestures, logVars>>

\* the packets written and not yet handled are at most MaxInbox a client,
\* and at most MaxNoise of them are noise: packets that change neither
\* operations nor the members
InboxesFit(inb) ==
    LET Noise(q) ==
            SelectSeq(q, LAMBDA m :
                m.event \notin {"init", "draw:commit", "state:full",
                                "presence:join"})
    IN  /\ \A c \in Conns : Len(inb[c]) <= MaxInbox
        /\ Len(Noise(inb["s1"])) + Len(Noise(inb["s2"])) <= MaxNoise

\* the server accepts the client's connection to the lobby
ServeConnection(c) ==
    /\ c \in ClientConns
    /\ OnConnection(c, Undef)
    /\ inbox' = Deliver(inbox, sent')
    /\ InboxesFit(inbox')
    /\ UNCHANGED <<canvas, outbox, gestures>>

\* the server handles the client's oldest emit; an emit made before the
\* connection waits in the socket's send buffer
ServeRequest(c) ==
    /\ outbox[c] # <<>>
    /\ LET q == Head(outbox[c])
       IN  \/ q.name = "draw:commit" /\ OnDrawCommit(c, q.op)
           \/ q.name = "op:undo" /\ OnUndo(c)
           \/ q.name = "op:redo" /\ OnRedo(c)
           \/ q.name = "op:clearUser" /\ OnClearUser(c, TRUE)
           \/ q.name = "op:clearAll" /\ OnClearAll(c, TRUE)
           \/ q.name \in EphemeralEvents /\ OnEphemeral(c, q.name, q.payload)
           \/ q.name = "reaction" /\ OnReaction(c, q.payload)
    /\ outbox' = [outbox EXCEPT ![c] = Tail(@)]
    /\ inbox' = Deliver(inbox, sent')
    /\ InboxesFit(inbox')
    /\ UNCHANGED <<canvas, gestures>>

\* the page closes: the server runs the disconnect handler of its socket;
\* the page, the packets on their way to it and its emits are gone
ServeDisconnect(c) ==
    /\ c \in ClientConns
    /\ OnDisconnect(c)
    /\ canvas' = [canvas EXCEPT ![c] = NewCanvas]
    /\ outbox' = [outbox EXCEPT ![c] = <<>>]
    /\ inbox' = Deliver([inbox EXCEPT ![c] = <<>>], sent')
    /\ InboxesFit(inbox')
    /\ UNCHANGED gestures

NextClients ==
    \/ \E c \in Conns : ServeConnection(c)
    \/ \E c \in Conns, tool \in Tools, p \in PointerPoints :
            PointerDown(c, tool, p)
    \/ \E c \in Conns, over \in BOOLEAN, p \in PointerPoints,
            throttled \in BOOLEAN : PointerMove(c, over, p, throttled)
    \/ \E c \in Conns : PointerUp(c)
    \/ \E c \in Conns, name \in {"op:undo", "op:redo"} :
            ClickUndoRedo(c, name)
    \/ \E c \in Conns, name \in {"op:clearAll", "op:clearUser"} :
            ClickClear(c, name)
    \/ \E c \in Conns, emoji \in ClientEmojis : ClickReaction(c, emoji)
    \/ \E c \in Conns : ServeRequest(c)
    \/ \E c \in Conns : Receive(c)
    \/ \E c \in Conns : ServeDisconnect(c)

SpecClients == Init /\ [][NextClients]_vars

\* ------------------------------------------------------------------------
\* Properties of the drawing history (checked under SpecLog)
\* ------------------------------------------------------------------------
LastIs(name) == last.call = name
\* the entries of ops authored by userId
AuthoredBy(ops, userId) == {i \in 1..Len(ops) : ops[i].userId = userId}
\* ops without the entries authored by userId, order kept
Without(ops, userId) == SelectSeq(ops, LAMBDA o : o.userId # userId)

\* C1: an operation the validator accepts is appended at the end of
\* operations (earlier entries untouched), the redo stack is left empty and
\* version grows by exactly 1.
C1_AppendValid ==
    (LastIs("addOperation") /\ validateOperation(last.op) = "") =>
        /\ ~last.threw
        /\ log.operations = Append(last.pre.operations, last.op)
        /\ log.redoStack = <<>>
        /\ log.version = last.pre.version + 1

C1_Witness ==
    /\ LastIs("addOperation")
    /\ ~last.threw
    /\ last.op.type = Str("shape:update")
    /\ Len(last.pre.operations) >= 1
    /\ Len(last.pre.redoStack) >= 1

\* C2: an operation the validator rejects (null, unsupported type, stroke
\* with one point, unknown shape kind, shape:update with empty targetId
\* among them) makes addOperation throw and leaves operations, the redo
\* stack and version exactly as they were.
C2_RejectInvalid ==
    (LastIs("addOperation")
        /\ (validateOperation(last.op) # "" \/ last.op \in InvalidTemplates)) =>
        /\ last.threw
        /\ log = last.pre

C2_Witness ==
    /\ LastIs("addOperation")
    /\ last.threw
    /\ last.op = StrokeOnePoint
    /\ Len(last.pre.operations) >= 1
    /\ Len(last.pre.redoStack) >= 1

\* C5: on a history with at least one operation, undo directly followed by
\* redo gives back the operations sequence as it was before the undo, and
\* version is its value before the undo plus 2.
C5_UndoRedo ==
    [][(/\ LastIs("undo")
        /\ Len(last.pre.operations) >= 1
        /\ last'.call = "redo") =>
            /\ last'.ret = Bool(TRUE)
            /\ log'.operations = last.pre.operations
            /\ log'.version = last.pre.version + 2]_vars

C5_Witness ==
    /\ LastIs("redo")
    /\ last.ret = Bool(TRUE)
    /\ last.prevCall = "undo"
    /\ last.prevRet = Bool(TRUE)
    /\ Len(log.operations) >= 2

\* C6: undo on an empty operations sequence returns false and changes
\* nothing; redo on an empty redo stack returns false and changes nothing.
C6_EmptyUndoRedo ==
    /\ (LastIs("undo") /\ Len(last.pre.operations) = 0) =>
            (last.ret = Bool(FALSE) /\ log = last.pre)
    /\ (LastIs("redo") /\ Len(last.pre.redoStack) = 0) =>
            (last.ret = Bool(FALSE) /\ log = last.pre)

C6_Witness ==
    /\ LastIs("undo")
    /\ last.ret = Bool(FALSE)
    /\ Len(last.pre.operations) = 0
    /\ Len(last.pre.redoStack) >= 1

\* C7: version never decreases; it grows by exactly 1 on an accepted
\* addOperation, an undo or redo that has something to move, a removeByUser
\* or clearAll that removes at least one entry, and is unchanged by every
\* other call.
C7_Mutating ==
    \/ LastIs("addOperation") /\ validateOperation(last.op) = ""
    \/ LastIs("undo") /\ Len(last.pre.operations) > 0
    \/ LastIs("redo") /\ Len(last.pre.redoStack) > 0
    \/ LastIs("removeByUser") /\ Len(log.operations) < Len(last.pre.operations)
    \/ LastIs("clearAll") /\ Len(last.pre.operations) > 0

C7_VersionSteps ==
    /\ log.version >= last.pre.version
    /\ log.version = last.pre.version + (IF C7_Mutating THEN 1 ELSE 0)

C7_Witness ==
    /\ LastIs("removeByUser")
    /\ last.pre.version >= 2
    /\ log.version = last.pre.version + 1

\* what C8 says of removeByUser(u): exactly the entries whose userId is u
\* are gone, the others keep their order, the call returns the number
\* removed, and when that number is nonzero the redo stack is empty and
\* version is 1 higher.  The returned value is read as a number, as the
\* callers do (Number(false) is 0).
C8_Effect ==
    LET expected == Without(last.pre.operations, last.userId)
        removed == Len(last.pre.operations) - Len(expected)
    IN  /\ log.operations = expected
        /\ last.ret.t \in {"number", "boolean"}
        /\ last.ret.n = removed
        /\ removed > 0 => (log.redoStack = <<>>
                           /\ log.version = last.pre.version + 1)

\* C8 as stated, for every userId
C8_RemoveByUser_AnyUser == LastIs("removeByUser") => C8_Effect

\* C8, amended: for every non-empty userId, removeByUser(u) removes exactly
\* the entries whose userId is u, keeps the others in order, returns the
\* number removed and, when it is nonzero, empties the redo stack and adds 1
\* to version; for an empty userId it returns false and changes nothing.
C8_RemoveByUser ==
    /\ (LastIs("removeByUser") /\ ~Falsy(last.userId)) =>
            (C8_Effect /\ last.ret.t = "number")
    /\ (LastIs("removeByUser") /\ Falsy(last.userId)) =>
            (last.ret = Bool(FALSE) /\ log = last.pre)

C8_Witness ==
    /\ LastIs("removeByUser")
    /\ last.userId = UserId(1)
    /\ Cardinality(AuthoredBy(last.pre.operations, UserId(1))) >= 2
    /\ Len(log.operations) >= 1
    /\ last.ret = Num(2)

\* C9: removeByUser(u) when no entry of operations is authored by u leaves
\* operations, the redo stack and version exactly as they were.
C9_RemoveNothing ==
    (LastIs("removeByUser")
        /\ AuthoredBy(last.pre.operations, last.userId) = {}) =>
        log = last.pre

\* C10: clearAll on a non-empty operations sequence empties operations and
\* the redo stack, adds 1 to version and returns the former length; a
\* clearAll made directly after it returns 0 and leaves version alone.
C10_ClearAll ==
    [][/\ (last'.call = "clearAll" /\ Len(log.operations) > 0) =>
            /\ log'.operations = <<>>
            /\ log'.redoStack = <<>>
            /\ log'.version = log.version + 1
            /\ last'.ret = Num(Len(log.operations))
       /\ (/\ LastIs("clearAll")
           /\ Len(last.pre.operations) > 0
           /\ last'.call = "clearAll") =>
            /\ last'.ret = Num(0)
            /\ log'.version = log.version
            /\ log'.operations = <<>>
            /\ log'.redoStack = <<>>]_vars

C10_Witness ==
    /\ LastIs("clearAll")
    /\ last.ret = Num(0)
    /\ last.prevCall = "clearAll"
    /\ last.prevRet = Num(2)

\* ------------------------------------------------------------------------
\* Properties of the gateway (checked under Spec)
\* ------------------------------------------------------------------------
\* the live connections that connected to room r
RoomMembers(r) ==
    {c \in Conns : conns[c].status = "connected" /\ conns[c].roomId = r}
\* whether the validator rejects the candidate as the handler submits it
CandidateRejected(op) ==
    validateOperation(Stamp(op, Undef, Undef, Undef)) # ""
SentEvents(msgs) == {msgs[i].event : i \in 1..Len(msgs)}

\* C3: a draw:commit whose candidate fails validation produces exactly one
\* emit, an error:message to the sending socket alone; no draw:commit or
\* state:full is emitted and every room's log is unchanged.
C3_RejectedCommit ==
    [][(ev'.name = "draw:commit" /\ CandidateRejected(ev'.op)) =>
        /\ Len(sent') = 1
        /\ sent'[1].event = "error:message"
        /\ sent'[1].to = {ev'.socketId}
        /\ SentEvents(sent') \cap {"draw:commit", "state:full"} = {}
        /\ rooms' = rooms]_vars

C3_Witness ==
    /\ ev.name = "draw:commit"
    /\ CandidateRejected(ev.op)
    /\ Cardinality(RoomMembers(ev.roomId)) >= 2
    /\ Len(rooms[ev.roomId].state.operations) >= 1
    /\ Len(rooms[ev.roomId].state.redoStack) >= 1

\* C4: a draw:commit whose candidate passes validation is answered by one
\* draw:commit emit carrying the operation as stamped and logged (server id,
\* the sender's userId, server timestamp), delivered to every connection
\* that is a member of the sender's room, the sender included, and to no
\* connection of another room.
C4_CommitBroadcast ==
    [][(ev'.name = "draw:commit" /\ ~CandidateRejected(ev'.op)) =>
        LET c == ev'.socketId
            r == conns[c].roomId
            logged == Last(rooms'[r].state.operations)
        IN  /\ Len(sent') = 1
            /\ sent'[1].event = "draw:commit"
            /\ sent'[1].op = logged
            /\ logged.id = NanoId(oids')
            /\ logged.userId = conns[c].userId
            /\ logged.timestamp.t = "number"
            /\ sent'[1].to = RoomMembers(r)
            /\ c \in sent'[1].to
            /\ \A d \in sent'[1].to : conns[d].roomId = r]_vars

C4_Witness ==
    /\ ev.name = "draw:commit"
    /\ ~CandidateRejected(ev.op)
    /\ Len(sent) = 1
    /\ sent[1].event = "draw:commit"
    /\ Cardinality(sent[1].to) >= 2
    /\ \E d \in Conns : conns[d].status = "connected"
                        /\ conns[d].roomId # ev.roomId

\* C11: clearAll on an empty operations sequence returns 0 and changes
\* nothing: a non-empty redo stack is kept, so a following redo succeeds.
C11_ClearNothing ==
    (LastIs("clearAll") /\ Len(last.pre.operations) = 0) =>
        (last.ret = Num(0) /\ log = last.pre)

\* the emits of msgs that carry the given event
Emits(msgs, event) == {i \in 1..Len(msgs) : msgs[i].event = event}
\* msgs[i] is a state:full for room r carrying that room's log as it is
\* after the step, delivered to exactly the members of r
FullStateOf(msgs, i, r) ==
    /\ msgs[i].event = "state:full"
    /\ msgs[i].to = RoomMembers(r)
    /\ msgs[i].version = rooms'[r].state.version
    /\ msgs[i].operations = rooms'[r].state.operations

\* C12: an op:undo (op:redo) that finds operations (the redo stack)
\* non-empty is followed by one state:full, to every member of the
\* requester's room, the requester included, whose version and operations
\* are the room's log right after the mutation; an op:undo on an empty log
\* or an op:redo on an empty redo stack emits nothing.
C12_UndoRedoBroadcast ==
    [][(ev'.name \in {"op:undo", "op:redo"}) =>
        LET r == ev'.roomId
            st == rooms[r].state
            applies == IF ev'.name = "op:undo" THEN Len(st.operations) > 0
                       ELSE Len(st.redoStack) > 0
        IN  IF applies
            THEN /\ Len(sent') = 1
                 /\ FullStateOf(sent', 1, r)
                 /\ ev'.socketId \in sent'[1].to
                 /\ rooms'[r].state.version = st.version + 1
                 /\ rooms'[r].state.operations # st.operations
            ELSE sent' = <<>>]_vars

C12_Witness ==
    /\ ev.name = "op:redo"
    /\ Len(sent) = 1
    /\ sent[1].event = "state:full"
    /\ Cardinality(sent[1].to) >= 2
    /\ Len(sent[1].operations) >= 1
    /\ sent[1].version = 3

\* what C13 says of op:clearUser and op:clearAll.  count is the number of
\* entries the request is to remove.  Removed something: one state:full with
\* the log after the removal, to every member of the room, and an ack
\* {ok: true, removed: count, version: new version} to the requester.
\* Removed nothing: no state:full, and an ack {ok: false, removed: 0,
\* version: unchanged version} to the requester.  acked tells whether the
\* requester is owed the ack.
C13_Effect(acked) ==
    LET c == ev'.socketId
        r == ev'.roomId
        st == rooms[r].state
        count == IF ev'.name = "op:clearUser"
                 THEN Cardinality(AuthoredBy(st.operations, conns[c].userId))
                 ELSE Len(st.operations)
        fulls == Emits(sent', "state:full")
        acks == Emits(sent', "ack")
    IN  /\ fulls \cup acks = 1..Len(sent')
        /\ \A i \in acks : sent'[i].to = {c}
        /\ acked => Cardinality(acks) = 1
        /\ ~acked => acks = {}
        /\ IF count > 0
           THEN /\ Cardinality(fulls) = 1
                /\ \A i \in fulls : FullStateOf(sent', i, r)
                /\ rooms'[r].state.version = st.version + 1
                /\ \A i \in acks :
                        /\ sent'[i].ok
                        /\ sent'[i].removed = count
                        /\ sent'[i].version = st.version + 1
           ELSE /\ fulls = {}
                /\ \A i \in acks :
                        /\ ~sent'[i].ok
                        /\ sent'[i].removed = 0
                        /\ sent'[i].version = st.version

\* C13 as stated: the requester is acknowledged on every request
C13_ClearAcked_Always ==
    [][(ev'.name \in {"op:clearUser", "op:clearAll"}) => C13_Effect(TRUE)]_vars

\* C13, amended: the requester is acknowledged when its request carried an
\* acknowledgement callback, and not otherwise; the rest as stated.
C13_ClearAcked ==
    [][(ev'.name \in {"op:clearUser", "op:clearAll"}) =>
            C13_Effect(ev'.ack)]_vars

C13_Witness ==
    /\ ev.name = "op:clearUser"
    /\ ev.ack
    /\ Len(sent) = 2
    /\ sent[1].event = "state:full"
    /\ Cardinality(sent[1].to) >= 2
    /\ Len(sent[1].operations) >= 1
    /\ sent[2].event = "ack"
    /\ sent[2].ok
    /\ sent[2].removed = 1

\* C14: op:clearUser over connection c removes from the room's log exactly
\* the operations committed over c, whatever userId the committed
\* candidates carried; operations committed over other connections stay,
\* in their order.
CommittedOver(o) == origin[o.id.n].socketId
C14_ClearOwn ==
    [][(ev'.name = "op:clearUser") =>
        LET c == ev'.socketId
            r == ev'.roomId
        IN  rooms'[r].state.operations =
                SelectSeq(rooms[r].state.operations,
                          LAMBDA o : CommittedOver(o) # c)]_vars

\* the requester s1 keeps an operation that another connection committed
\* with s1's userId written in the candidate
C14_Witness ==
    /\ ev.name = "op:clearUser"
    /\ ev.socketId = "s1"
    /\ Len(sent) >= 1
    /\ sent[1].event = "state:full"
    /\ \E i \in 1..Len(rooms[ev.roomId].state.operations) :
          LET o == rooms[ev.roomId].state.operations[i]
          IN  /\ CommittedOver(o) # "s1"
              /\ origin[o.id.n].op.userId = conns["s1"].userId


\* C19: on connect the new connection is sent exactly one init and nobody
\* else is sent one; its user is the identity assigned to the connection, an
\* identity no other connection has; its snapshot is the room's version and
\* operations; its users list holds, once each, the users of the room's
\* members after the connect, the new connection's among them.
C19_Init ==
    [][(ev'.name = "connection") =>
        LET c == ev'.socketId
            r == ev'.roomId
            inits == Emits(sent', "init")
            members == {d \in Conns : /\ conns'[d].status = "connected"
                                       /\ conns'[d].roomId = r}
        IN  /\ Cardinality(inits) = 1
            /\ \A i \in inits :
                LET m == sent'[i]
                IN  /\ m.to = {c}
                    /\ m.user = UserOf(conns'[c].userId)
                    /\ IsString(m.user.userId) /\ m.user.userId.s # ""
                    /\ \A d \in Conns \ {c} : conns[d].userId # m.user.userId
                    /\ m.version = rooms'[r].state.version
                    /\ m.operations = rooms'[r].state.operations
                    /\ rooms'[r].state = rooms[r].state
                    /\ c \in members
                    /\ Len(m.users) = Cardinality(members)
                    /\ {m.users[k] : k \in 1..Len(m.users)} =
                            {UserOf(conns'[d].userId) : d \in members}]_vars

C19_Witness ==
    /\ ev.name = "connection"
    /\ Len(sent) >= 1
    /\ sent[1].event = "init"
    /\ sent[1].to = {ev.socketId}
    /\ Len(sent[1].users) = 2
    /\ Len(sent[1].operations) >= 1
    /\ \E d \in Conns : conns[d].status = "closed"

\* C20: on connect one presence:join carrying the new identity is sent to
\* the connections that were members of the room before the connect: not
\* to the new connection, not to a connection of another room.
C20_PresenceJoin ==
    [][(ev'.name = "connection") =>
        LET c == ev'.socketId
            r == ev'.roomId
            joins == Emits(sent', "presence:join")
        IN  /\ Cardinality(joins) = 1
            /\ \A i \in joins :
                /\ sent'[i].to = RoomMembers(r)
                /\ c \notin sent'[i].to
                /\ \A d \in sent'[i].to : conns'[d].roomId = r
                /\ sent'[i].user = UserOf(conns'[c].userId)]_vars

C20_Witness ==
    /\ ev.name = "connection"
    /\ Len(sent) = 2
    /\ sent[2].event = "presence:join"
    /\ Cardinality(sent[2].to) = 1
    /\ ev.socketId \notin sent[2].to
    /\ \E d \in Conns : /\ conns[d].status = "connected"
                        /\ conns[d].roomId # ev.roomId


\* C16: whichever connections' events the server handles in whichever
\* order, each handler's mutation is whole before anything observes it: a
\* step changes the version and operations of at most the room of the
\* handled event, by one version at a time and never the operations without
\* the version, and every init and state:full payload emitted by the step
\* is that room's version and operations as the step leaves them.
C16_Atomic ==
    [][/\ \A r \in RoomIds :
            LET pre == rooms[r].state
                post == rooms'[r].state
            IN  /\ post.version \in {pre.version, pre.version + 1}
                /\ (post.operations # pre.operations) =>
                        post.version = pre.version + 1
                /\ (post.version # pre.version) => r = ev'.roomId
       /\ \A i \in Emits(sent', "init") \cup Emits(sent', "state:full") :
            /\ sent'[i].version = rooms'[ev'.roomId].state.version
            /\ sent'[i].operations = rooms'[ev'.roomId].state.operations
      ]_vars

\* an undo requested over one connection of an operation committed over
\* another, observed by both
C16_Witness ==
    /\ ev.name = "op:undo"
    /\ Len(sent) = 1
    /\ sent[1].event = "state:full"
    /\ Cardinality(sent[1].to) >= 2
    /\ sent[1].version = 3
    /\ LET redoStack == rooms[ev.roomId].state.redoStack
       IN  /\ Len(redoStack) >= 1
           /\ CommittedOver(Last(redoStack)) # ev.socketId


\* ------------------------------------------------------------------------
\* Properties of a held snapshot (checked under SpecSnapshot)
\* ------------------------------------------------------------------------
\* C15: a snapshot obtained from getSnapshot() shows, after any later
\* addOperation, undo, redo, removeByUser or clearAll on the same log, the
\* version and the operations it showed when it was obtained.
C15_ByValue ==
    snap.taken =>
        /\ snap.version <= log.version
        /\ SnapOperations = snap.original


\* ------------------------------------------------------------------------
\* Properties of the gateway with its ephemeral events (checked under
\* SpecGateway)
\* ------------------------------------------------------------------------
\* C17: a connect, disconnect, draw:commit, op:undo, op:redo, op:clearUser,
\* op:clearAll, cursor:move, draw:progress, shape:progress or reaction
\* handled for a connection of room R leaves every other room's record
\* (log and users), socket membership and members as they were, and none
\* of its emits reaches a connection of another room.
C17_RoomsIndependent ==
    [][\A q \in RoomIds \ {ev'.roomId} :
            /\ rooms'[q] = rooms[q]
            /\ adapter'[q] = adapter[q]
            /\ \A d \in RoomMembers(q) :
                    /\ conns'[d] = conns[d]
                    /\ \A i \in 1..Len(sent') : d \notin sent'[i].to
            /\ \A d \in Conns \ RoomMembers(q) :
                    ~(conns'[d].status = "connected" /\ conns'[d].roomId = q)
      ]_vars

C17_Witness ==
    /\ ev.name \in EphemeralEvents
    /\ Len(sent) = 1
    /\ sent[1].to # {}
    /\ \E q \in RoomIds \ {ev.roomId} :
            /\ RoomMembers(q) # {}
            /\ Len(rooms[q].state.operations) >= 1


\* ------------------------------------------------------------------------
\* Properties of the clients (checked under SpecClients)
\* ------------------------------------------------------------------------
\* nothing is on its way in either direction
Quiet == \A c \in Conns : inbox[c] = <<>> /\ outbox[c] = <<>>

\* C18: once every packet the server sent has been handled by its
\* recipient and no client emit is on its way, the operations list of each
\* connected client, the author of the commits included, is the operations
\* of its room's log on the server: the same entries in the same order.
C18_Converged ==
    Quiet =>
        \A c \in Conns :
            Connected(c) =>
                canvas[c].operations
                    = rooms[conns[c].roomId].state.operations


\* ------------------------------------------------------------------------
\* Presence and ephemeral events (checked under SpecGateway)
\* ------------------------------------------------------------------------
\* C21: in every state the users of each room hold one entry, with the
\* connection's own identity, for each live connection that connected to
\* the room, and no entry for any other connection: none for one that has
\* disconnected, none for one of another room.  The socket.io room of the
\* same name holds the same connections.
C21_Presence ==
    \A r \in RoomIds :
        LET users == rooms[r].users
            present == {users[i].socketId : i \in 1..Len(users)}
        IN  /\ present = RoomMembers(r)
            /\ Len(users) = Cardinality(present)
            /\ \A i \in 1..Len(users) :
                    users[i].user = UserOf(conns[users[i].socketId].userId)
            /\ adapter[r] = RoomMembers(r)

\* one room holds two presences while a connection of that room has
\* disconnected and another room holds a third
C21_Witness ==
    /\ Len(rooms["lobby"].users) = 1
    /\ Len(rooms["r1"].users) = 1
    /\ \E d \in Conns : conns[d].status = "closed" /\ conns[d].roomId = "r1"
    /\ ev.name = "disconnect"

\* C22: a disconnect takes the connection's presence out of its room and
\* then sends one presence:leave, carrying the connection's userId, to the
\* connections that remain in that room and to nobody else; the room's log
\* is as it was.
C22_Disconnect ==
    [][(ev'.name = "disconnect") =>
        LET c == ev'.socketId
            r == ev'.roomId
            remaining == RoomMembers(r) \ {c}
        IN  /\ c \in RoomMembers(r)
            /\ \A i \in 1..Len(rooms'[r].users) :
                    rooms'[r].users[i].socketId # c
            /\ {rooms'[r].users[i].socketId :
                    i \in 1..Len(rooms'[r].users)} = remaining
            /\ Len(sent') = 1
            /\ sent'[1].event = "presence:leave"
            /\ sent'[1].to = remaining
            /\ sent'[1].userId = conns[c].userId
            /\ rooms'[r].exists
            /\ rooms'[r].state = rooms[r].state]_vars

\* the last member of a room with a non-empty log and a non-empty redo
\* stack disconnects
C22_Witness ==
    /\ ev.name = "disconnect"
    /\ Len(sent) = 1
    /\ sent[1].event = "presence:leave"
    /\ sent[1].to = {}
    /\ Len(rooms[ev.roomId].state.operations) >= 1
    /\ Len(rooms[ev.roomId].state.redoStack) >= 1


\* C23: the userId of every cursor:move, draw:progress and shape:progress
\* the server forwards is the identity the server gave the connection that
\* sent the event, whatever the payload, a payload with a userId property
\* of its own included.
C23_ForwardedIdentity ==
    (ev.name \in EphemeralEvents) =>
        \A i \in 1..Len(sent) :
            sent[i].userId = conns[ev.socketId].userId

\* C24: a cursor:move, draw:progress or shape:progress from a connection
\* is forwarded once, under the same event name and with the payload's
\* data, to the other members of the connection's room: not to the
\* sender, not to a connection of another room.
C24_Relay ==
    [][(ev'.name \in EphemeralEvents) =>
        LET c == ev'.socketId
            r == ev'.roomId
        IN  /\ r = conns[c].roomId
            /\ Len(sent') = 1
            /\ sent'[1].event = ev'.name
            /\ sent'[1].x = ev'.payload.x
            /\ sent'[1].to = RoomMembers(r) \ {c}
            /\ c \notin sent'[1].to
            /\ \A d \in sent'[1].to : conns[d].roomId = r]_vars

C24_Witness ==
    /\ ev.name = "draw:progress"
    /\ ev.payload = Pos
    /\ Len(sent) = 1
    /\ sent[1].x = Num(3)
    /\ Cardinality(sent[1].to) = 1
    /\ \E d \in Conns : /\ conns[d].status = "connected"
                        /\ conns[d].roomId # ev.roomId

\* C25: handling a cursor:move, draw:progress, shape:progress or reaction,
\* whatever its payload, leaves the operations, the redo stack and the
\* version of every room as they were.
C25_EphemeralFrame ==
    [][(ev'.name \in EphemeralEvents \cup {"reaction"}) =>
        \A r \in RoomIds :
            /\ rooms'[r].exists = rooms[r].exists
            /\ rooms'[r].state = rooms[r].state]_vars

C25_Witness ==
    /\ ev.name \in EphemeralEvents
    /\ ev.payload = PosSpoofed
    /\ Len(sent) = 1
    /\ Len(rooms[ev.roomId].state.operations) >= 1
    /\ Len(rooms[ev.roomId].state.redoStack) >= 1

\* C26: a reaction whose emoji is a non-empty string is sent once, with the
\* sender's userId and that emoji, to every member of the sender's room,
\* the sender included; one whose emoji is missing (sent with no argument,
\* or with an object that has none), the empty string or not a string is
\* dropped: nothing is sent to anyone and the handler returns normally.
C26_Reaction ==
    [][ev'.name = "reaction" =>
        LET c == ev'.socketId
            r == ev'.roomId
            emoji == ev'.payload.emoji
        IN  IF IsString(emoji) /\ emoji.s # ""
            THEN /\ Len(sent') = 1
                 /\ sent'[1].event = "reaction"
                 /\ sent'[1].to = RoomMembers(r)
                 /\ c \in sent'[1].to
                 /\ sent'[1].userId = conns[c].userId
                 /\ sent'[1].emoji = emoji
                 /\ ~ev'.uncaught
            ELSE /\ sent' = <<>>
                 /\ ~ev'.uncaught]_vars

\* a reaction sent with an object is sent to the room when its emoji is a
\* non-empty string and dropped otherwise
C26_ExceptNoArgument ==
    [][(ev'.name = "reaction" /\ ~ev'.payload.nul) =>
        LET c == ev'.socketId
            r == ev'.roomId
            emoji == ev'.payload.emoji
        IN  IF IsString(emoji) /\ emoji.s # ""
            THEN /\ Len(sent') = 1
                 /\ sent'[1].event = "reaction"
                 /\ sent'[1].to = RoomMembers(r)
                 /\ c \in sent'[1].to
                 /\ sent'[1].userId = conns[c].userId
                 /\ sent'[1].emoji = emoji
                 /\ ~ev'.uncaught
            ELSE /\ sent' = <<>>
                 /\ ~ev'.uncaught]_vars

\* a reaction sent with no argument ends in an exception nothing catches
C26_NoArgumentThrows ==
    [][(ev'.name = "reaction" /\ ev'.payload.nul) =>
        sent' = <<>> /\ ev'.uncaught]_vars

\* C27: no event is fatal to the server: whatever the event and its
\* payload, a missing payload included, the handler ends without an
\* exception that nothing catches.
C27_NeverFatal == ~ev.uncaught


\* ------------------------------------------------------------------------
\* Further properties of the gateway (checked under Spec)
\* ------------------------------------------------------------------------
\* the operations a room's log holds, undone ones included
HeldBy(r) == rooms[r].state.operations \o rooms[r].state.redoStack

\* C28: every operation in a room's operations or redo stack carries an
\* id drawn by the server, a timestamp read by the server and the userId
\* of the connection that committed it, whatever id, userId or timestamp
\* the client's candidate carried.
C28_ServerStamped ==
    \A r \in RoomIds : \A i \in 1..Len(HeldBy(r)) :
        LET o == HeldBy(r)[i]
        IN  /\ \E k \in 1..oids : o.id = NanoId(k)
            /\ \E t \in 0..MaxTime : o.timestamp = Num(t)
            /\ o.userId = conns[CommittedOver(o)].userId
            /\ IsString(o.userId) /\ o.userId.s # ""

\* an undone operation whose candidate came with an id, a timestamp and
\* another connection's userId
C28_Witness ==
    \E r \in RoomIds : \E i \in 1..Len(rooms[r].state.redoStack) :
        LET o == rooms[r].state.redoStack[i]
        IN  /\ origin[o.id.n].op = Spoofed
            /\ CommittedOver(o) = "s2"
            /\ o.userId = UserId(2)

\* C29: in every state each shape:update entry of a room's operations
\* has the targetId of a shape entry that stands earlier in the same
\* operations and whose id the server assigned.
C29_TargetExists ==
    \A r \in RoomIds :
        LET ops == rooms[r].state.operations
        IN  \A i \in 1..Len(ops) :
                (ops[i].type = Str("shape:update")) =>
                    \E j \in 1..(i - 1) :
                        /\ ops[j].type = Str("shape")
                        /\ ops[j].id = ops[i].targetId

\* C30: an op:undo from any member of a room whose operations are not
\* empty removes the last entry of the room's operations, whichever
\* connection committed it, and leaves the entries before it in place.
C30_GlobalUndo ==
    [][(ev'.name = "op:undo" /\ Len(rooms[ev'.roomId].state.operations) > 0)
        =>
        LET r == ev'.roomId
            pre == rooms[r].state
            post == rooms'[r].state
        IN  /\ ev'.socketId \in RoomMembers(r)
            /\ post.operations = Front(pre.operations)
            /\ post.redoStack = Append(pre.redoStack, Last(pre.operations))
      ]_vars

\* a member undoes the operation of a connection that has disconnected,
\* and an operation of its own stays
C30_Witness ==
    /\ ev.name = "op:undo"
    /\ Len(sent) = 1
    /\ LET st == rooms[ev.roomId].state
       IN  /\ Len(st.redoStack) >= 1
           /\ CommittedOver(Last(st.redoStack)) # ev.socketId
           /\ conns[CommittedOver(Last(st.redoStack))].status = "closed"
           /\ Len(st.operations) >= 1


\* ------------------------------------------------------------------------
\* The RoomManager alone: its methods called in any order, and the
\* DrawingState of a room mutated through getState as the handlers do
\* ------------------------------------------------------------------------
RoomSockets == {"s1", "s2"}
\* the user record a socket is registered with
RoomUser(c) == UserOf(UserId(IF c = "s1" THEN 1 ELSE 2))
\* a committed operation as the draw:commit handler hands it to a room
RoomOp == Stamp(ShapeOk, NanoId(1), UserId(1), Num(0))

RoomCall(name, c, roomId) ==
    [NoEvent EXCEPT !.name = name, !.socketId = c, !.roomId = roomId]

CallEnsureRoom(roomId) ==
    /\ rooms' = ensureRoom(rooms, roomId)
    /\ ev' = RoomCall("ensureRoom", "", roomId)
    /\ UNCHANGED <<adapter, conns, uids, oids, sent, origin, logVars,
                   clientVars>>

CallJoin(c, roomId) ==
    LET j == join(rooms, adapter, c, roomId, RoomUser(c))
    IN  /\ rooms' = j.rooms
        /\ adapter' = j.adapter
        /\ ev' = RoomCall("join", c, roomId)
        /\ UNCHANGED <<conns, uids, oids, sent, origin, logVars, clientVars>>

CallLeave(c, roomId) ==
    LET l == leave(rooms, adapter, c, roomId)
    IN  /\ rooms' = l.rooms
        /\ adapter' = l.adapter
        /\ ev' = RoomCall("leave", c, roomId)
        /\ UNCHANGED <<conns, uids, oids, sent, origin, logVars, clientVars>>

CallGetState(roomId) ==
    /\ rooms' = getState(rooms, roomId).rooms
    /\ ev' = RoomCall("getState", "", roomId)
    /\ UNCHANGED <<adapter, conns, uids, oids, sent, origin, logVars,
                   clientVars>>

CallGetUsers(roomId) ==
    /\ rooms' = getUsers(rooms, roomId).rooms
    /\ ev' = RoomCall("getUsers", "", roomId)
    /\ UNCHANGED <<adapter, conns, uids, oids, sent, origin, logVars,
                   clientVars>>

\* roomManager.getState(roomId).addOperation(op)
RoomAddOperation(roomId) ==
    LET st == getState(rooms, roomId)
        r == addOperation(st.ret, RoomOp)
    IN  /\ r.state.version <= MaxRoomVersion
        /\ rooms' = [st.rooms EXCEPT ![roomId].state = r.state]
        /\ ev' = RoomCall("addOperation", "", roomId)
        /\ UNCHANGED <<adapter, conns, uids, oids, sent, origin, logVars,
                       clientVars>>

\* roomManager.getState(roomId).undo()
RoomUndo(roomId) ==
    LET st == getState(rooms, roomId)
        r == undo(st.ret)
    IN  /\ r.state.version <= MaxRoomVersion
        /\ rooms' = [st.rooms EXCEPT ![roomId].state = r.state]
        /\ ev' = RoomCall("undo", "", roomId)
        /\ UNCHANGED <<adapter, conns, uids, oids, sent, origin, logVars,
                       clientVars>>

NextRooms ==
    \/ \E roomId \in RoomIds : CallEnsureRoom(roomId)
    \/ \E c \in RoomSockets, roomId \in RoomIds : CallJoin(c, roomId)
    \/ \E c \in RoomSockets, roomId \in RoomIds : CallLeave(c, roomId)
    \/ \E roomId \in RoomIds : CallGetState(roomId)
    \/ \E roomId \in RoomIds : CallGetUsers(roomId)
    \/ \E roomId \in RoomIds : RoomAddOperation(roomId)
    \/ \E roomId \in RoomIds : RoomUndo(roomId)

SpecRooms == Init /\ [][NextRooms]_vars

\* the socket ids registered in a users map
Registered(users) == {users[i].socketId : i \in 1..Len(users)}

\* C31: ensureRoom on a room that has a record changes nothing, and so does
\* the ensureRoom inside join, getState and getUsers: the room's drawing
\* state and the entries of the other sockets are what they were (join sets
\* the entry of its own socket only); on a room without a record each of
\* them creates one with an empty log at version 0 and no users; a second
\* ensureRoom changes nothing after the first.
C31_EnsureIdempotent ==
    [][ /\ (/\ ev'.name \in {"ensureRoom", "join", "getState", "getUsers"}
            /\ rooms[ev'.roomId].exists)
           => /\ \A r \in RoomIds \ {ev'.roomId} : rooms'[r] = rooms[r]
              /\ rooms'[ev'.roomId].exists
              /\ rooms'[ev'.roomId].state = rooms[ev'.roomId].state
              /\ IF ev'.name = "join"
                 THEN MapDelete(rooms'[ev'.roomId].users, ev'.socketId)
                        = MapDelete(rooms[ev'.roomId].users, ev'.socketId)
                 ELSE rooms'[ev'.roomId].users = rooms[ev'.roomId].users
        /\ (/\ ev'.name \in {"ensureRoom", "join", "getState", "getUsers"}
            /\ ~rooms[ev'.roomId].exists)
           => /\ \A r \in RoomIds \ {ev'.roomId} : rooms'[r] = rooms[r]
              /\ rooms'[ev'.roomId].exists
              /\ rooms'[ev'.roomId].state = NewDrawingState
              /\ rooms'[ev'.roomId].users
                    = IF ev'.name = "join"
                      THEN << [socketId |-> ev'.socketId,
                               user |-> RoomUser(ev'.socketId)] >>
                      ELSE <<>>
        /\ \A r \in RoomIds :
              ensureRoom(ensureRoom(rooms, r), r) = ensureRoom(rooms, r)
      ]_vars

\* a room with operations, an undone operation and a registered user has
\* just been joined by a second socket
C31_Witness ==
    /\ ev.name = "join"
    /\ Len(rooms[ev.roomId].state.operations) >= 1
    /\ Len(rooms[ev.roomId].state.redoStack) >= 1
    /\ Len(rooms[ev.roomId].users) = 2
    /\ rooms[ev.roomId].users[2].socketId = ev.socketId

\* C32: leave for a room without a record, or for a socket that is not
\* registered in the room, changes neither the registry nor the socket.io
\* membership, and creates no record.
C32_LeaveNoOp ==
    [][ (/\ ev'.name = "leave"
         /\ \/ ~rooms[ev'.roomId].exists
            \/ ev'.socketId \notin Registered(rooms[ev'.roomId].users))
        => /\ rooms' = rooms
           /\ adapter' = adapter
      ]_vars

\* leave has been called for a room that has no record by a socket that is
\* registered in the other room, next to another socket
C32_Witness ==
    /\ ev.name = "leave"
    /\ ~rooms[ev.roomId].exists
    /\ \E r \in RoomIds :
          /\ rooms[r].exists
          /\ ev.socketId \in Registered(rooms[r].users)
          /\ Len(rooms[r].users) = 2
          /\ ev.socketId \in adapter[r]


\* the events whose handlers mutate the drawing state of a room
LogEvents == {"draw:commit", "op:undo", "op:redo", "op:clearUser",
              "op:clearAll"}

\* C33: a room that has a record keeps it; its operations, redo stack and
\* version change only in a draw:commit, undo, redo or clear of one of its
\* own members, whether or not anybody is registered in it; and the init a
\* joining connection is sent carries the operations and the version the
\* room's log had before the connection.
C33_RoomPersists ==
    [][ \A r \in RoomIds :
          rooms[r].exists =>
            /\ rooms'[r].exists
            /\ (ev'.name \notin LogEvents \/ ev'.roomId # r)
                  => rooms'[r].state = rooms[r].state
            /\ (ev'.name = "connection" /\ ev'.roomId = r)
                  => /\ sent'[1].event = "init"
                     /\ sent'[1].to = {ev'.socketId}
                     /\ sent'[1].operations = rooms[r].state.operations
                     /\ sent'[1].version = rooms[r].state.version
      ]_vars

\* a connection joins a room that every earlier member has left: it is the
\* only user listed in its init, which carries an operation committed
\* before, and the room's redo stack is not empty
C33_Witness ==
    /\ ev.name = "connection"
    /\ Len(sent) >= 1
    /\ sent[1].event = "init"
    /\ Len(sent[1].users) = 1
    /\ Len(sent[1].operations) >= 1
    /\ Len(rooms[ev.roomId].state.redoStack) >= 1
    /\ \E d \in Conns : conns[d].status = "closed"
                        /\ conns[d].roomId = ev.roomId


\* ------------------------------------------------------------------------
\* validateOperation alone, applied to candidates of every type tag whose
\* properties are present or absent, well typed or not
\* ------------------------------------------------------------------------
StrokeCandidates ==
    {[EmptyObject EXCEPT !.type = Str("stroke"), !.points = points,
            !.size = size, !.color = color, !.composite = composite] :
        points \in {Undef, Arr(1), Arr(2), Str("ab")},
        size \in {Undef, Num(0), Num(4), NaN, Str("4")},
        color \in {Undef, Str("#000")},
        composite \in {Undef, Str("source-over"), Str("destination-out"),
                       Str("xor")}}

ShapeDimensions ==
    {[size |-> size, width |-> width, height |-> height] :
        size \in {Undef, Num(0), Num(4), NaN},
        width \in {Undef, Num(0), Num(10)},
        height \in {Undef, Num(10)}}

ShapeCandidates ==
    {[EmptyObject EXCEPT !.type = Str("shape"), !.shape = shape,
            !.x = x, !.y = y, !.size = dim.size, !.width = dim.width,
            !.height = dim.height, !.color = color] :
        shape \in {Undef, Str("circle"), Str("hexagon")},
        x \in {Undef, Num(0)},
        y \in {Undef, Num(0)},
        dim \in ShapeDimensions,
        color \in {Undef, Str("#f00")}}

UpdateCandidates ==
    {[EmptyObject EXCEPT !.type = Str("shape:update"),
            !.targetId = targetId, !.x = x, !.y = y, !.width = dim.width,
            !.height = dim.height, !.color = color] :
        targetId \in {Undef, Str(""), NanoId(1), Num(1)},
        x \in {Undef, Num(5)},
        y \in {Undef, Num(5)},
        dim \in ShapeDimensions,
        color \in {Undef, Str("#f00"), Num(3)}}

Candidates ==
    StrokeCandidates \cup ShapeCandidates \cup UpdateCandidates
        \cup {NullOp, EmptyObject, TextOp}

CallValidateOperation(op) ==
    /\ last' = [NoCall EXCEPT !.call = "validateOperation", !.op = op,
                    !.threw = (validateOperation(op) # ""),
                    !.message = validateOperation(op)]
    /\ UNCHANGED <<log, snap, serverVars, clientVars>>

NextValidate == \E op \in Candidates : CallValidateOperation(op)

SpecValidate == Init /\ [][NextValidate]_vars

\* the rules of the three variants as they are stated
Positive(v) == v.t = "number" /\ v.s # "NaN" /\ v.n > 0
StrokeRules(op) ==
    /\ op.points.t = "array" /\ op.points.n >= 2
    /\ Positive(op.size)
    /\ op.color.t = "string"
    /\ op.composite \in {Str("source-over"), Str("destination-out")}
ShapeRules(op) ==
    /\ op.shape \in {Str("circle"), Str("square"), Str("triangle")}
    /\ op.x.t = "number" /\ op.y.t = "number"
    /\ op.color.t = "string"
    /\ Positive(op.size) \/ (Positive(op.width) /\ Positive(op.height))
UpdateRules(op) ==
    /\ op.targetId.t = "string" /\ op.targetId.s # ""
    /\ \/ op.x.t = "number" /\ op.y.t = "number"
       \/ Positive(op.width) /\ Positive(op.height)
       \/ op.color.t = "string"
MatchesRules(op) ==
    /\ ~op.nul
    /\ \/ op.type = Str("stroke") /\ StrokeRules(op)
       \/ op.type = Str("shape") /\ ShapeRules(op)
       \/ op.type = Str("shape:update") /\ UpdateRules(op)

\* C34: validateOperation accepts a candidate exactly when it matches the
\* rules of its variant: a stroke with at least two points, a positive
\* numeric size, a string color and a composite of source-over or
\* destination-out; a shape of an allowed kind with numeric x and y, a
\* string color and a positive size or positive width and height; a
\* shape:update with a non-empty string targetId and a numeric x,y pair, a
\* positive width,height pair or a string color; nothing else.
C34_AcceptsIffRules ==
    LastIs("validateOperation") =>
        (~last.threw <=> MatchesRules(last.op))

\* outside a stroke whose size is NaN, acceptance and the rules agree
C34_ExceptNaNSize ==
    (LastIs("validateOperation")
        /\ ~(last.op.type = Str("stroke") /\ last.op.size = NaN))
    => (~last.threw <=> MatchesRules(last.op))


\* the entries of a client's list that came from the server: the local
\* placeholder of a shape the client drew carries a local id
FromServer(operations) ==
    SelectSeq(operations, LAMBDA o : ~IsLocalId(o.id))

\* what a client holds once it has handled the packets written to it
RECURSIVE Replay(_, _, _)
Replay(cm, packets, self) ==
    IF packets = <<>> THEN cm
    ELSE Replay(Handled(cm, Head(packets), self), Tail(packets), self)

\* C35: at every moment, for every connection that has joined, the
\* operations of the snapshot the connection was sent, followed by the
\* operations of the draw:commit events written to it since (a state:full
\* replacing the list), are the operations of the room's log, each once and
\* in the log's order.
C35_NoGapNoDuplicate ==
    \A c \in ClientConns :
        conns[c].status = "connected" =>
            Replay([canvas[c] EXCEPT !.operations = FromServer(@)],
                   inbox[c], conns[c].userId).operations
                = rooms[conns[c].roomId].state.operations

\* a connection joined a room whose log held one operation and, before it
\* handled its init, a second operation was committed and broadcast
C35_Witness ==
    \E c \in ClientConns :
        /\ conns[c].status = "connected"
        /\ Len(inbox[c]) = 2
        /\ inbox[c][1].event = "init"
        /\ Len(inbox[c][1].operations) = 1
        /\ inbox[c][2].event = "draw:commit"
        /\ inbox[c][2].op.id # inbox[c][1].operations[1].id
        /\ Len(rooms[conns[c].roomId].state.operations) = 2


\* the serials of the ids of a list of operations; ids are generated in
\* the order in which operations are appended to a log
Serials(operations) == [i \in 1..Len(operations) |-> operations[i].id.n]
Increasing(q) == \A i, j \in 1..Len(q) : i < j => q[i] < q[j]
\* the operations of the draw:commit packets among packets, order kept
CommitsOf(packets) ==
    LET commits == SelectSeq(packets, LAMBDA m : m.event = "draw:commit")
    IN  [i \in 1..Len(commits) |-> commits[i].op]
\* the packets before the first snapshot among packets
RECURSIVE BeforeSnapshot(_)
BeforeSnapshot(packets) ==
    IF packets = <<>> \/ Head(packets).event \in {"init", "state:full"}
    THEN <<>>
    ELSE <<Head(packets)>> \o BeforeSnapshot(Tail(packets))

\* C36: the draw:commit events written to a connection carry their
\* operations in the order in which the operations were appended to the
\* room's log, which is the order the log holds them in, and they follow
\* the operations the connection has already got; the order is the same
\* for every connection.
C36_BroadcastOrder ==
    /\ \A r \in RoomIds : Increasing(Serials(rooms[r].state.operations))
    /\ \A c \in ClientConns :
          /\ Increasing(Serials(CommitsOf(inbox[c])))
          /\ Increasing(Serials(FromServer(canvas[c].operations)
                                    \o CommitsOf(BeforeSnapshot(inbox[c]))))

\* two operations were committed to the room, one by each of the two
\* members, and the draw:commit packets of both wait, in commit order, at
\* each of the members
C36_Witness ==
    /\ Serials(rooms["lobby"].state.operations) = <<1, 2>>
    /\ rooms["lobby"].state.operations[1].userId
            # rooms["lobby"].state.operations[2].userId
    /\ \A c \in ClientConns :
          /\ conns[c].status = "connected"
          /\ Serials(CommitsOf(inbox[c])) = <<1, 2>>


Reverse(q) == [i \in 1..Len(q) |-> q[Len(q) + 1 - i]]
\* operations followed by the redo stack, latest undone first
Timeline(st) == st.operations \o Reverse(st.redoStack)
\* k calls of undo, k calls of redo
RECURSIVE UndoTimes(_, _)
UndoTimes(st, k) == IF k = 0 THEN st ELSE UndoTimes(undo(st).state, k - 1)
RECURSIVE RedoTimes(_, _)
RedoTimes(st, k) == IF k = 0 THEN st ELSE RedoTimes(redo(st).state, k - 1)

\* C37: an undo or redo that succeeds leaves operations followed by the
\* reversed redo stack as it was and moves exactly one operation; k undos
\* followed by k redos give back operations, for every k up to the length
\* of operations; and no operation of a room is both in operations and on
\* the redo stack, after every event of the room.
C37_StacksConserved ==
    [][ /\ \A r \in RoomIds :
              (/\ ev'.name \in {"op:undo", "op:redo"}
               /\ ev'.roomId = r
               /\ rooms[r].exists
               /\ rooms'[r].state # rooms[r].state)
              => /\ Timeline(rooms'[r].state) = Timeline(rooms[r].state)
                 /\ Len(rooms'[r].state.operations)
                      = Len(rooms[r].state.operations)
                          + (IF ev'.name = "op:redo" THEN 1 ELSE -1)
        /\ \A r \in RoomIds \cap {ev'.roomId} :
              LET st == rooms'[r].state
              IN  /\ \A k \in 1..Len(st.operations) :
                        RedoTimes(UndoTimes(st, k), k).operations
                            = st.operations
                  /\ \A i \in 1..Len(st.operations),
                        j \in 1..Len(st.redoStack) :
                        st.operations[i].id # st.redoStack[j].id
      ]_vars

\* an operation was committed and undone, and a redo has put it back: the
\* room holds it again, at version 3, and the redo stack is empty
C37_Witness ==
    /\ ev.name = "op:redo"
    /\ Len(sent) = 1
    /\ sent[1].event = "state:full"
    /\ Len(rooms[ev.roomId].state.operations) = 1
    /\ rooms[ev.roomId].state.redoStack = <<>>
    /\ rooms[ev.roomId].state.version = 3

====
